---- MODULE Spec2Model ----
(***************************************************************************)
(* Model of the recursive tracer Scene.trace of src/python/raytrace_cpu.py *)
(* as a state machine over an explicit call stack.                         *)
(*                                                                         *)
(* Numbers.  Python floats are modelled as fixed-point integers with six   *)
(* decimals (1.0 is Scale); every product and quotient is truncated to     *)
(* that resolution.  TLC integers are 32 bits wide, so products are        *)
(* computed in two halves (FMul) and quotients digit by digit (FDiv).      *)
(*                                                                         *)
(* Geometry.  The intersectors (ray_aabb, ray_sphere, intersect_mirror,    *)
(* intersect_candle, intersect_human) are pure functions of the ray and    *)
(* the scene.  An invocation of trace sees them only through the values    *)
(* they return, so a ray is represented by those values: for every scene   *)
(* element the hit distance it would report (or None), drawn from a        *)
(* bounded set when the invocation reaches its first intersection test.    *)
(* Every combination of results is explored, those of real rays included.  *)
(***************************************************************************)
EXTENDS Integers, Sequences, FiniteSets, TLC

VARIABLES scene, stack, color, threads, call, ret

vars == <<scene, stack, color, threads, call, ret>>

\* What a trace in progress leaves alone besides the Scene and the caller's
\* colour: the concurrent evaluations and the function call under examination
\* of the other specifications.
others == <<threads, call, ret>>

\* ------------------------------------------------------------- bounds

\* Hit distances are the multiples 1..MaxT of half a unit.
MaxT == 2

\* max_bounces of the "infinite tracing" scene (docstring: a high value).
MaxBounces == 14

\* ------------------------------------------------------- fixed point

Scale == 10^6

DistStep == Scale \div 2

Dists == {k * DistStep : k \in 1..MaxT}

\* None, the "no hit" result of an intersector.
None == -1

OptDists == {None} \cup Dists

Max(a, b) == IF a >= b THEN a ELSE b

Min(a, b) == IF a <= b THEN a ELSE b

Abs(a) == IF a < 0 THEN -a ELSE a

\* a * b for non-negative fixed-point a, b, truncated to six decimals.
UMul(a, b) ==
    LET a1 == a \div 1000
        a0 == a % 1000
        b1 == b \div 1000
        b0 == b % 1000
    IN  a1 * b1 + ((a1 * b0 + a0 * b1 + ((a0 * b0) \div 1000)) \div 1000)

\* a * b, truncated towards zero.
FMul(a, b) ==
    IF (a < 0) = (b < 0) THEN UMul(Abs(a), Abs(b)) ELSE -UMul(Abs(a), Abs(b))

RECURSIVE DivDigits(_, _, _, _)
DivDigits(q, r, b, k) ==
    IF k = 0 THEN q
    ELSE DivDigits(q * 10 + ((r * 10) \div b), (r * 10) % b, b, k - 1)

\* a / b for non-negative fixed-point a and positive b, truncated.
UDiv(a, b) == DivDigits(a \div b, a % b, b, 6)

\* a / b for b /= 0, truncated towards zero.
FDiv(a, b) ==
    IF (a < 0) = (b < 0) THEN UDiv(Abs(a), Abs(b)) ELSE -UDiv(Abs(a), Abs(b))

\* Newton's iteration for the square root, from a start r above it.
RECURSIVE SqrtFrom(_, _)
SqrtFrom(x, r) ==
    LET r2 == (r + UDiv(x, r)) \div 2
    IN  IF r2 >= r THEN r ELSE SqrtFrom(x, r2)

\* math.sqrt(x) for fixed-point x >= 0.
Sqrt(x) ==
    IF x = 0 THEN 0
    ELSE SqrtFrom(x, IF x >= Scale THEN Min(x, 46 * Scale) ELSE Scale)

RECURSIVE ExpNegSum(_, _, _)
ExpNegSum(x, n, term) ==
    IF term = 0 THEN 0
    ELSE term - ExpNegSum(x, n + 1, FMul(term, x) \div (n + 1))

\* math.exp(-x) for fixed-point x >= 0: the alternating power series.
ExpNeg(x) == ExpNegSum(x, 0, Scale)

\* ---------------------------------------------------- vector utilities

add(a, b) == <<a[1] + b[1], a[2] + b[2], a[3] + b[3]>>

sub(a, b) == <<a[1] - b[1], a[2] - b[2], a[3] - b[3]>>

mul(a, s) == <<FMul(a[1], s), FMul(a[2], s), FMul(a[3], s)>>

dot(a, b) == FMul(a[1], b[1]) + FMul(a[2], b[2]) + FMul(a[3], b[3])

length(v) == Sqrt(dot(v, v))

\* abs(x) < 1e-8: the only number of six decimals that small is 0.
NearZero(x) == x = 0

\* norm: the zero vector for an input shorter than 1e-8, else mul(v, 1.0 / l)
\* (each component divided by l, which keeps all six decimals).
norm(v) ==
    LET l == length(v)
    IN  IF NearZero(l) THEN <<0, 0, 0>>
        ELSE <<FDiv(v[1], l), FDiv(v[2], l), FDiv(v[3], l)>>

\* reflect without the factor 2: the projection onto the surface.
reflectNoDouble(rd, n) == sub(rd, mul(n, dot(rd, n)))

\* reflect: rd - 2 (rd . n) n
reflect(rd, n) == sub(rd, mul(n, FMul(2 * Scale, dot(rd, n))))

clamp01(x) == Max(0, Min(Scale, x))

\* --------------------------------------------------- program constants

\* if bounce >= max_bounces or energy < 0.005
EnergyCutoff == 5000

\* if bounce >= 6
FadeStart == 6

\* math.exp(-(bounce - 6) * 0.25)
FadeRate == 250000

\* boost = 1.15
Boost == 1150000

\* mirror.get("reflectivity", 0.95)
DefaultReflectivity == 950000

\* if nearest_reflectivity > 0.01
ReflectThreshold == 10000

\* reflection_efficiency = 0.92
ReflectionEfficiency == 920000

\* shadow_t < dist_to_light - radius - 1e-3
ShadowSlack == 1000

\* dist_factor = 1.0 / max(0.1, dist_to_light * dist_to_light)
MinDistSquared == 100000

\* medium_attenuation = math.exp(-dist_to_light * 0.02)
Absorption == 20000

\* ambient = 0.1
Ambient == 100000

\* render_settings.get("max_bounces", 4)
DefaultMaxBounces == 4

Black == <<0, 0, 0>>

\* candle.get("flame_intensity", [8.0, 6.0, 4.0])
DefaultFlameIntensity == <<8 * Scale, 6 * Scale, 4 * Scale>>

\* candle.get("wax_color", [0.9, 0.9, 0.95])
DefaultWaxColor == <<900000, 900000, 950000>>

\* dict.get(key, default)
Get(d, key, default) == IF key \in DOMAIN d THEN d[key] ELSE default

\* ------------------------------------------------------------- scenes

\* Scene configurations (scene_data).  Positions and sizes are geometry and
\* reach trace only through the intersectors' results; the records hold the
\* fields trace reads itself.
RoomConfig ==
    [size          |-> <<10 * Scale, 6 * Scale, 10 * Scale>>,
     center        |-> <<0, 3 * Scale, 0>>,
     floor_color   |-> <<600000, 500000, 400000>>,
     ceiling_color |-> <<900000, 900000, 900000>>,
     wall_color    |-> <<700000, 700000, 800000>>]

LightConfig == [radius |-> 300000, intensity |-> <<3 * Scale, 2500000, 2 * Scale>>]

\* A record with no optional field: every .get falls back to its default.
Defaults == [position |-> <<0, 0, 0>>]

EmptyRoom ==
    [room |-> RoomConfig, light |-> LightConfig, render |-> [width |-> 1]]

\* Two parallel facing mirrors, reflectivity 0.95 (one given, one defaulted).
FacingMirrors ==
    [room |-> RoomConfig, light |-> LightConfig,
     mirrors |-> <<[reflectivity |-> 950000], Defaults>>,
     render |-> [max_bounces |-> 3]]

\* The same mirrors traced "infinitely" (a high max_bounces).
DeepMirrors ==
    [room |-> RoomConfig, light |-> LightConfig,
     mirrors |-> <<[reflectivity |-> 950000], Defaults>>,
     render |-> [max_bounces |-> MaxBounces]]

Mixed ==
    [room |-> RoomConfig, light |-> LightConfig,
     mirrors |-> <<[reflectivity |-> 500000]>>,
     candles |-> <<Defaults>>,
     human_models |-> <<[color |-> <<800000, 600000, 500000>>]>>,
     render |-> [width |-> 1]]

Candles ==
    [room |-> RoomConfig, light |-> LightConfig,
     candles |-> <<[flame_intensity |-> <<9 * Scale, 5 * Scale, 2 * Scale>>,
                    wax_color |-> <<950000, 900000, 800000>>],
                   Defaults>>,
     human_models |-> <<[color |-> <<800000, 600000, 500000>>]>>,
     render |-> [width |-> 1]]

\* Two figures and a mirror too dull to reflect (reflectivity 0.01).
Humans ==
    [room |-> RoomConfig, light |-> LightConfig,
     mirrors |-> <<[reflectivity |-> 10000]>>,
     human_models |-> <<[color |-> <<800000, 600000, 500000>>],
                        [color |-> <<200000, 300000, 900000>>]>>,
     render |-> [width |-> 1]]

SceneData == <<EmptyRoom, FacingMirrors, DeepMirrors, Mixed, Candles, Humans>>

\* Scene.__init__
SceneOf(scene_data) ==
    [scene_data   |-> scene_data,
     room         |-> scene_data.room,
     light        |-> scene_data.light,
     mirrors      |-> Get(scene_data, "mirrors", <<>>),
     human_models |-> Get(scene_data, "human_models", <<>>),
     candles      |-> Get(scene_data, "candles", <<>>),
     room_min     |-> [i \in 1..3 |-> scene_data.room.center[i] - scene_data.room.size[i] \div 2],
     room_max     |-> [i \in 1..3 |-> scene_data.room.center[i] + scene_data.room.size[i] \div 2]]

\* max_bounces = render_settings.get("max_bounces", 4)
RenderMaxBounces(s) == Get(s.scene_data.render, "max_bounces", DefaultMaxBounces)

\* Scene.get_room_face_color
get_room_face_color(s, normal) ==
    IF normal[2] < -900000 THEN s.room.floor_color
    ELSE IF normal[2] > 900000 THEN s.room.ceiling_color
    ELSE s.room.wall_color

\* ------------------------------------------------------ intersectors

NoNormal == <<0, 0, 0>>

\* 1e-4, the least hit distance an intersector accepts
MinT == 100

\* eps = 1e-4, the tolerance of ray_aabb's face test
Eps == 100

\* 1e8, ray_aabb's stand-in for 1 / rd[i] when the ray is parallel to slab i
InvParallel == 10^8

\* candle.get("height", 1.5)
DefaultHeight == 1500000

\* candle.get("radius", 0.2)
DefaultRadius == 200000

\* flame_center = (pos[0], pos[1] + height + 0.15, pos[2])
FlameOffset == 150000

\* flame_radius = 0.12
FlameRadius == 120000

\* What an intersector returns: (t, n) of a hit, (None, None), or an
\* exception; hit tells whether t is a distance (t is not None).
Hit(t, n) == [status |-> "returned", hit |-> TRUE, t |-> t, n |-> n]

Miss == [status |-> "returned", hit |-> FALSE, t |-> None, n |-> NoNormal]

Raised(e) == [status |-> e, hit |-> FALSE, t |-> None, n |-> NoNormal]

\* The slab distances of ray_aabb reach 1e8 times a coordinate, beyond one
\* integer: they are kept as pairs <<q, r>> standing for q * 10^8 + r,
\* 0 <= r < 10^8, compared in the lexicographic order.
Wide(x) == <<x \div InvParallel, x % InvParallel>>

Narrow(w) == w[1] * InvParallel + w[2]

WLess(a, b) == a[1] < b[1] \/ (a[1] = b[1] /\ a[2] < b[2])

WMax(a, b) == IF WLess(a, b) THEN b ELSE a

WMin(a, b) == IF WLess(a, b) THEN a ELSE b

\* (b - ro[i]) * inv_rd[i], inv_rd[i] = 1.0 / rd[i] if abs(rd[i]) > 1e-8 else 1e8
SlabT(d, rdi) == IF ~NearZero(rdi) THEN Wide(FDiv(d, rdi)) ELSE <<d, 0>>

\* ray_aabb without the fall-back to tmax.
ray_aabbEntryOnly(ro, rd, bmin, bmax) ==
    LET t0    == [i \in 1..3 |-> SlabT(bmin[i] - ro[i], rd[i])]
        t1    == [i \in 1..3 |-> SlabT(bmax[i] - ro[i], rd[i])]
        tmin  == WMax(WMax(WMin(t0[1], t1[1]), WMin(t0[2], t1[2])), WMin(t0[3], t1[3]))
        tmax  == WMin(WMin(WMax(t0[1], t1[1]), WMax(t0[2], t1[2])), WMax(t0[3], t1[3]))
        hit   == [i \in 1..3 |->
                    IF rd[i] = 0 THEN ro[i] ELSE ro[i] + FMul(rd[i], Narrow(tmin))]
        n     == IF Abs(hit[1] - bmin[1]) < Eps THEN <<-Scale, 0, 0>>
                 ELSE IF Abs(hit[1] - bmax[1]) < Eps THEN <<Scale, 0, 0>>
                 ELSE IF Abs(hit[2] - bmin[2]) < Eps THEN <<0, -Scale, 0>>
                 ELSE IF Abs(hit[2] - bmax[2]) < Eps THEN <<0, Scale, 0>>
                 ELSE IF Abs(hit[3] - bmin[3]) < Eps THEN <<0, 0, -Scale>>
                 ELSE <<0, 0, Scale>>
    IN  IF WLess(tmax, Wide(0)) \/ WLess(tmax, tmin) THEN Miss
        ELSE IF WLess(tmin, Wide(MinT)) THEN Miss
        ELSE Hit(tmin, n)

\* ray_aabb; the t returned is a pair <<q, r>>.
ray_aabb(ro, rd, bmin, bmax) ==
    LET t0    == [i \in 1..3 |-> SlabT(bmin[i] - ro[i], rd[i])]
        t1    == [i \in 1..3 |-> SlabT(bmax[i] - ro[i], rd[i])]
        tmin  == WMax(WMax(WMin(t0[1], t1[1]), WMin(t0[2], t1[2])), WMin(t0[3], t1[3]))
        tmax  == WMin(WMin(WMax(t0[1], t1[1]), WMax(t0[2], t1[2])), WMax(t0[3], t1[3]))
        t_hit == IF ~WLess(tmin, Wide(MinT)) THEN tmin ELSE tmax
        hit   == [i \in 1..3 |->
                    IF rd[i] = 0 THEN ro[i] ELSE ro[i] + FMul(rd[i], Narrow(t_hit))]
        n     == IF Abs(hit[1] - bmin[1]) < Eps THEN <<-Scale, 0, 0>>
                 ELSE IF Abs(hit[1] - bmax[1]) < Eps THEN <<Scale, 0, 0>>
                 ELSE IF Abs(hit[2] - bmin[2]) < Eps THEN <<0, -Scale, 0>>
                 ELSE IF Abs(hit[2] - bmax[2]) < Eps THEN <<0, Scale, 0>>
                 ELSE IF Abs(hit[3] - bmin[3]) < Eps THEN <<0, 0, -Scale>>
                 ELSE <<0, 0, Scale>>
    IN  IF WLess(tmax, Wide(0)) \/ WLess(tmax, tmin) THEN Miss
        ELSE IF WLess(t_hit, Wide(MinT)) THEN Miss
        ELSE Hit(t_hit, n)

\* ray_sphere accepting every positive root.
ray_sphereAnyPositive(ro, rd, center, radius) ==
    LET oc    == sub(ro, center)
        a     == dot(rd, rd)
        b     == 2 * dot(oc, rd)
        c     == dot(oc, oc) - FMul(radius, radius)
        disc  == FMul(b, b) - FMul(4 * a, c)
        sdisc == Sqrt(disc)
        t0    == FDiv(-b - sdisc, 2 * a)
        t1    == FDiv(-b + sdisc, 2 * a)
        t     == IF t0 > 0 THEN t0 ELSE IF t1 > 0 THEN t1 ELSE None
    IN  IF disc < 0 THEN Miss
        ELSE IF 2 * a = 0 THEN Raised("ZeroDivisionError")
        ELSE IF t = None THEN Miss
        ELSE Hit(t, norm(sub(add(ro, mul(rd, t)), center)))

\* ray_sphere; the division by 2 * a raises ZeroDivisionError when a is 0.
ray_sphere(ro, rd, center, radius) ==
    LET oc    == sub(ro, center)
        a     == dot(rd, rd)
        b     == 2 * dot(oc, rd)
        c     == dot(oc, oc) - FMul(radius, radius)
        disc  == FMul(b, b) - FMul(4 * a, c)
        sdisc == Sqrt(disc)
        t0    == FDiv(-b - sdisc, 2 * a)
        t1    == FDiv(-b + sdisc, 2 * a)
        t     == IF t0 > MinT THEN t0 ELSE IF t1 > MinT THEN t1 ELSE None
    IN  IF disc < 0 THEN Miss
        ELSE IF 2 * a = 0 THEN Raised("ZeroDivisionError")
        ELSE IF t = None THEN Miss
        ELSE Hit(t, norm(sub(add(ro, mul(rd, t)), center)))

\* ray_plane
ray_plane(ro, rd, pos, normal) ==
    LET denom == dot(rd, normal)
        t     == FDiv(dot(sub(pos, ro), normal), denom)
    IN  IF NearZero(denom) THEN Miss
        ELSE IF t < MinT THEN Miss
        ELSE Hit(t, normal)

\* The body of ray_cylinder's loop for one root t: the hit if t is accepted.
CylinderHit(ro, rd, center, height, t) ==
    LET hit   == add(ro, mul(rd, t))
        y_rel == hit[2] - center[2]
    IN  IF t < MinT THEN Miss
        ELSE IF 0 <= y_rel /\ y_rel <= height
        THEN Hit(t, norm(<<hit[1] - center[1], 0, hit[3] - center[3]>>))
        ELSE Miss

\* ray_cylinder trying the near root only.
ray_cylinderNearOnly(ro, rd, center, radius, height) ==
    LET oc    == sub(ro, center)
        a     == FMul(rd[1], rd[1]) + FMul(rd[3], rd[3])
        b     == 2 * (FMul(oc[1], rd[1]) + FMul(oc[3], rd[3]))
        c     == FMul(oc[1], oc[1]) + FMul(oc[3], oc[3]) - FMul(radius, radius)
        disc  == FMul(b, b) - FMul(4 * a, c)
        h0    == CylinderHit(ro, rd, center, height, FDiv(-b - Sqrt(disc), 2 * a))
    IN  IF NearZero(a) THEN Miss
        ELSE IF disc < 0 THEN Miss
        ELSE h0

\* ray_cylinder: an open vertical cylinder from center[1] up to center[1] + height
ray_cylinder(ro, rd, center, radius, height) ==
    LET oc    == sub(ro, center)
        a     == FMul(rd[1], rd[1]) + FMul(rd[3], rd[3])
        b     == 2 * (FMul(oc[1], rd[1]) + FMul(oc[3], rd[3]))
        c     == FMul(oc[1], oc[1]) + FMul(oc[3], oc[3]) - FMul(radius, radius)
        disc  == FMul(b, b) - FMul(4 * a, c)
        sdisc == Sqrt(disc)
        h0    == CylinderHit(ro, rd, center, height, FDiv(-b - sdisc, 2 * a))
        h1    == CylinderHit(ro, rd, center, height, FDiv(-b + sdisc, 2 * a))
    IN  IF NearZero(a) THEN Miss
        ELSE IF disc < 0 THEN Miss
        ELSE IF h0.hit THEN h0
        ELSE h1

\* Scene.intersect_mirror: every hit on the mirror's plane is accepted.
intersect_mirror(ro, rd, mirror) ==
    ray_plane(ro, rd, mirror.position, norm(mirror.normal))

\* Scene.intersect_candle: the nearer of the body and the flame, the body on
\* a tie (the sort is stable); part tells which.
intersect_candle(ro, rd, candle) ==
    LET pos           == candle.position
        height        == Get(candle, "height", DefaultHeight)
        radius        == Get(candle, "radius", DefaultRadius)
        candle_center == <<pos[1], pos[2] + FMul(height, 500000), pos[3]>>
        body          == ray_cylinder(ro, rd, candle_center, radius, height)
        flame_center  == <<pos[1], pos[2] + height + FlameOffset, pos[3]>>
        flame         == ray_sphere(ro, rd, flame_center, FlameRadius)
        with(h, part) == [status |-> h.status, hit |-> h.hit, t |-> h.t, n |-> h.n,
                          part |-> part]
    IN  IF flame.status /= "returned" THEN with(flame, "none")
        ELSE IF ~body.hit /\ ~flame.hit THEN with(Miss, "none")
        ELSE IF ~flame.hit THEN with(body, "candle_body")
        ELSE IF ~body.hit THEN with(flame, "candle_flame")
        ELSE IF flame.t < body.t THEN with(flame, "candle_flame")
        ELSE with(body, "candle_body")

\* -------------------------------------------- intersection results

\* The unit axis normals ray_aabb reports for the floor, the ceiling and a wall.
RoomNormals == {<<0, -Scale, 0>>, <<0, Scale, 0>>, <<Scale, 0, 0>>}

\* ray_aabb: (None, None) or (t_hit, n)
RoomHits == {[t |-> None, n |-> NoNormal]} \cup [t : Dists, n : RoomNormals]

\* intersect_candle: (None, None, None) or (t, n, part), the nearer of body and flame
CandleHits ==
    {[t |-> None, part |-> "none"]} \cup [t : Dists, part : {"candle_body", "candle_flame"}]

NoIsect == [room |-> [t |-> None, n |-> NoNormal], light |-> None,
            mirrors |-> <<>>, candles |-> <<>>, humans |-> <<>>]

\* What the intersectors return for one ray in scene s: ray_aabb on the room,
\* ray_sphere on the light, intersect_mirror, intersect_candle and
\* intersect_human on every element of the three lists.
Isects(s) ==
    [room    : RoomHits,
     light   : OptDists,
     mirrors : [1..Len(s.mirrors) -> OptDists],
     candles : [1..Len(s.candles) -> CandleHits],
     humans  : [1..Len(s.human_models) -> OptDists]]

\* ------------------------------------------------------ Scene.trace

\* The nearest-hit candidate: nearest_t, nearest_material, nearest_color,
\* nearest_reflectivity as initialised before the scan.
NoCandidate ==
    [t |-> None, material |-> "none", color |-> Black, reflectivity |-> 0]

\* Mutant: the depth cap tested with > in place of >=.
TerminatedOffByOne(max_bounces, bounce, energy) ==
    bounce > max_bounces \/ energy < EnergyCutoff

\* if bounce >= max_bounces or energy < 0.005
Terminated(max_bounces, bounce, energy) ==
    bounce >= max_bounces \/ energy < EnergyCutoff

\* Mutant: the fade counted from the first bounce, not from the sixth.
FadeFactorFromZero(bounce) == ExpNeg(bounce * FadeRate)

\* fade_factor = math.exp(-(bounce - 6) * 0.25)
FadeFactor(bounce) == ExpNeg((bounce - FadeStart) * FadeRate)

\* No fade: the energy as it came in.
Unfaded(bounce, energy) == energy

\* if bounce >= 6: energy *= fade_factor
Faded(bounce, energy) ==
    IF bounce >= FadeStart THEN FMul(energy, FadeFactor(bounce)) ELSE energy

\* Mutant: a candidate at an equal distance replaces the current nearest.
CloserOrEqual(t, nearest_t) == t /= None /\ (nearest_t = None \/ t <= nearest_t)

\* t is not None and (nearest_t is None or t < nearest_t)
Closer(t, nearest_t) == t /= None /\ (nearest_t = None \/ t < nearest_t)

\* Mutant: the room's faces given a mirror's reflectivity.
RoomCandidateReflective(s, room) ==
    IF room.t /= None
    THEN [t |-> room.t, material |-> "room",
          color |-> get_room_face_color(s, room.n), reflectivity |-> DefaultReflectivity]
    ELSE NoCandidate

\* The room candidate: the baseline of the scan.
RoomCandidate(s, room) ==
    IF room.t /= None
    THEN [t |-> room.t, material |-> "room",
          color |-> get_room_face_color(s, room.n), reflectivity |-> 0]
    ELSE NoCandidate

\* The light test, made against the room candidate only.
LightShortCircuit(t_light, nearest_t) == Closer(t_light, nearest_t)

\* Mutant: the light's emission returned without the boost.
LightEmissionNoBoost(s) == s.light.intensity

\* return (intensity[0] * boost, intensity[1] * boost, intensity[2] * boost)
LightEmission(s) == mul(s.light.intensity, Boost)

\* for mirror in self.mirrors
RECURSIVE ScanMirrors(_, _, _, _)
ScanMirrors(s, is, i, nearest) ==
    IF i > Len(s.mirrors) THEN nearest
    ELSE ScanMirrors(s, is, i + 1,
            IF Closer(is.mirrors[i], nearest.t)
            THEN [t |-> is.mirrors[i], material |-> "mirror", color |-> Black,
                  reflectivity |-> Get(s.mirrors[i], "reflectivity", DefaultReflectivity)]
            ELSE nearest)

\* Mutant: a flame is treated like the wax body, a candidate and no more.
RECURSIVE ScanCandlesNoFlame(_, _, _, _)
ScanCandlesNoFlame(s, is, i, nearest) ==
    IF i > Len(s.candles) THEN [flame |-> 0, nearest |-> nearest]
    ELSE ScanCandlesNoFlame(s, is, i + 1,
            IF Closer(is.candles[i].t, nearest.t)
            THEN [t |-> is.candles[i].t, material |-> "candle",
                  color |-> Get(s.candles[i], "wax_color", DefaultWaxColor),
                  reflectivity |-> 0]
            ELSE nearest)

\* for candle in self.candles: a flame that is nearer than the candidate returns
\* its emission at once (flame is the index of that candle, 0 when none did).
RECURSIVE ScanCandles(_, _, _, _)
ScanCandles(s, is, i, nearest) ==
    IF i > Len(s.candles) THEN [flame |-> 0, nearest |-> nearest]
    ELSE IF Closer(is.candles[i].t, nearest.t)
         THEN IF is.candles[i].part = "candle_flame"
              THEN [flame |-> i, nearest |-> nearest]
              ELSE ScanCandles(s, is, i + 1,
                      [t |-> is.candles[i].t, material |-> "candle",
                       color |-> Get(s.candles[i], "wax_color", DefaultWaxColor),
                       reflectivity |-> 0])
         ELSE ScanCandles(s, is, i + 1, nearest)

\* intensity = tuple(candle.get("flame_intensity", [8.0, 6.0, 4.0]))
FlameEmission(s, i) == Get(s.candles[i], "flame_intensity", DefaultFlameIntensity)

\* for human in self.human_models
RECURSIVE ScanHumans(_, _, _, _)
ScanHumans(s, is, i, nearest) ==
    IF i > Len(s.human_models) THEN nearest
    ELSE ScanHumans(s, is, i + 1,
            IF Closer(is.humans[i], nearest.t)
            THEN [t |-> is.humans[i], material |-> "human",
                  color |-> s.human_models[i].color, reflectivity |-> 0]
            ELSE nearest)

\* The sky gradient: t = 0.5 * (rd[1] + 1.0)
Sky(dy) ==
    LET t == FMul(500000, dy + Scale)
    IN  <<FMul(100000, Scale - t) + FMul(300000, t),
          FMul(120000, Scale - t) + FMul(400000, t),
          FMul(150000, Scale - t) + FMul(500000, t)>>

\* if nearest_reflectivity > 0.01
Reflects(reflectivity) == reflectivity > ReflectThreshold

\* Mutant: the recursive call passes bounce on unchanged.
NextBounceSame(bounce) == bounce

\* self.trace(reflected_ro, reflected_rd, max_bounces, bounce + 1, new_energy)
NextBounce(bounce) == bounce + 1

\* Mutant: the energy passed on is scaled by the mirror's default reflectivity.
NewEnergyByReflectivity(energy) == FMul(energy, DefaultReflectivity)

\* new_energy = energy * reflection_efficiency
NewEnergy(energy) == FMul(energy, ReflectionEfficiency)

\* Mutant: the reflected colour scaled by the reflectivity alone.
ReflectedResultNoEnergy(reflected_color, reflectivity, energy) ==
    mul(reflected_color, reflectivity)

\* Mutant: reflectivity and energy added where they should be multiplied.
ReflectedResultAdded(reflected_color, reflectivity, energy) ==
    mul(reflected_color, reflectivity + energy)

\* return mul(reflected_color, nearest_reflectivity * energy)
ReflectedResult(reflected_color, reflectivity, energy) ==
    mul(reflected_color, FMul(reflectivity, energy))

\* ---------------------------------------------------- diffuse branch

\* dot(nearest_n, ldir) for unit vectors, before clamp01.
NDots == {-(Scale \div 2), Scale \div 2, Scale}

\* The geometry of the hit point with respect to the light: dist_to_light,
\* dot(nearest_n, ldir), and what the shadow ray's intersectors return.
LightGeoms(s) ==
    [dist           : Dists,
     ndotl          : NDots,
     shadow_light   : OptDists,
     shadow_room    : OptDists,
     shadow_candles : [1..Len(s.candles) -> OptDists],
     shadow_humans  : [1..Len(s.human_models) -> OptDists]]

\* The slack added to the light's surface instead of taken from it.
ShadowLimitBeyond(dist_to_light, radius) == dist_to_light - radius + ShadowSlack

\* dist_to_light - self.light["radius"] - 1e-3
ShadowLimit(dist_to_light, radius) == dist_to_light - radius - ShadowSlack

\* shadow_t is not None and shadow_t < limit
ShadowHit(shadow_t, limit) == shadow_t /= None /\ shadow_t < limit

\* Mutant: the loop goes on after a positive test (no break).
RECURSIVE ShadowLoopNoBreak(_, _, _, _, _)
ShadowLoopNoBreak(ts, dist, kind, i, sh) ==
    IF i > Len(ts) THEN sh
    ELSE ShadowLoopNoBreak(ts, dist, kind, i + 1,
            [blocked |-> sh.blocked \/ ShadowHit(ts[i], dist),
             tests   |-> Append(sh.tests, <<kind, i>>)])

\* if not blocked: for x in xs: test x; if positive: blocked = True; break
\* (sh is blocked and the tests made so far, ts the shadow ray's hit distance
\* on every element of the list.)
RECURSIVE ShadowLoop(_, _, _, _, _)
ShadowLoop(ts, dist, kind, i, sh) ==
    IF sh.blocked \/ i > Len(ts) THEN sh
    ELSE ShadowLoop(ts, dist, kind, i + 1,
            [blocked |-> ShadowHit(ts[i], dist),
             tests   |-> Append(sh.tests, <<kind, i>>)])

\* The shadow ray: the light sphere first, then, each only while nothing has
\* blocked, the room, the candles and the human figures.
ShadowTests(s, lg) ==
    LET light == [blocked |-> ShadowHit(lg.shadow_light,
                                         ShadowLimit(lg.dist, s.light.radius)),
                  tests   |-> << <<"light", 0>> >>]
        room  == IF ~light.blocked
                 THEN [blocked |-> ShadowHit(lg.shadow_room, lg.dist),
                       tests   |-> Append(light.tests, <<"room", 0>>)]
                 ELSE light
        cands == ShadowLoop(lg.shadow_candles, lg.dist, "candle", 1, room)
    IN  ShadowLoop(lg.shadow_humans, lg.dist, "human", 1, cands)

\* blocked, after the shadow tests
Blocked(s, lg) == ShadowTests(s, lg).blocked

\* A face lit from either side and never in shadow.
DirectTwoSided(s, lg) ==
    LET dist_factor == FDiv(Scale, Max(MinDistSquared, FMul(lg.dist, lg.dist)))
        medium_attenuation == ExpNeg(FMul(lg.dist, Absorption))
    IN  FMul(FMul(Min(Scale, Abs(lg.ndotl)), dist_factor), medium_attenuation)

\* direct = 0.0 if blocked else ndotl * dist_factor * medium_attenuation
Direct(s, lg) ==
    LET ndotl == clamp01(lg.ndotl)
        dist_factor == FDiv(Scale, Max(MinDistSquared, FMul(lg.dist, lg.dist)))
        medium_attenuation == ExpNeg(FMul(lg.dist, Absorption))
    IN  IF Blocked(s, lg) THEN 0
        ELSE FMul(FMul(ndotl, dist_factor), medium_attenuation)

\* Mutant: the energy scales the whole sum, the ambient term included.
DiffuseColorAmbientScaled(s, nearest_color, energy, lg) ==
    [c \in 1..3 |->
        FMul(nearest_color[c],
             FMul(Ambient + FMul(Direct(s, lg), s.light.intensity[c]), energy))]

\* col: nearest_color[c] * (ambient + direct * light_intensity[c] * energy)
DiffuseColor(s, nearest_color, energy, lg) ==
    [c \in 1..3 |->
        FMul(nearest_color[c],
             Ambient + FMul(FMul(Direct(s, lg), s.light.intensity[c]), energy))]

NoLightGeom ==
    [dist |-> None, ndotl |-> 0, shadow_light |-> None, shadow_room |-> None,
     shadow_candles |-> <<>>, shadow_humans |-> <<>>]

\* ------------------------------------------------------- the call stack

\* One activation of trace: its arguments (energy_in is the energy argument
\* as passed, energy the local the body updates), its position, its locals
\* (isect and lg are the ray's and the hit point's geometry as the
\* intersectors report it; blocked and shadow_tests are the outcome of the
\* shadow ray and the tests it made), the number of intersection passes and of
\* recursive calls it has made and, once it has returned, its result and the
\* return statement taken.
Frame(max_bounces, bounce, energy) ==
    [max_bounces |-> max_bounces, bounce |-> bounce,
     energy_in |-> energy, energy |-> energy,
     pc |-> "enter", isect |-> NoIsect, nearest |-> NoCandidate,
     lg |-> NoLightGeom, blocked |-> FALSE, shadow_tests |-> <<>>,
     reflected_color |-> Black,
     ntests |-> 0, ncalls |-> 0,
     result |-> Black, via |-> "none"]

Top == stack[Len(stack)]

SetTop(f) == [stack EXCEPT ![Len(stack)] = f]

Returned(f, col, via) == [f EXCEPT !.pc = "done", !.result = col, !.via = via]

\* Arguments of the calls made from outside: the renderers' call
\* (max_bounces of the render settings, bounce 0, energy 1.0) and calls that
\* enter at a later bounce or with an energy at or below the cut-off.
EntryMaxBounces(s) == {0, RenderMaxBounces(s)}

EntryBounces == {0, 6, 10}

EntryEnergies == {2 * Scale, Scale, EnergyCutoff, EnergyCutoff - 1}

\* No function call under examination, nothing returned.
NoCall == [fn |-> "none"]

NoRet == [status |-> "none"]

Init ==
    /\ \E i \in 1..Len(SceneData) : scene = SceneOf(SceneData[i])
    /\ stack = <<>>
    /\ color = Black
    /\ threads = <<>>
    /\ call = NoCall
    /\ ret = NoRet

\* color = scene.trace(ro, rd, max_bounces, bounce, energy)
TraceCall ==
    /\ stack = <<>>
    /\ \E mb \in EntryMaxBounces(scene), b \in EntryBounces, e \in EntryEnergies :
          stack' = <<Frame(mb, b, e)>>
    /\ color' = Black
    /\ UNCHANGED <<scene, others>>

\* The steps of the running invocation of a call stack stk, as functions of
\* the stack and of what the intersectors return for its ray.

EnterStep(stk) ==
    LET top == stk[Len(stk)]
    IN  [stk EXCEPT ![Len(stk)] =
            IF Terminated(top.max_bounces, top.bounce, top.energy)
            THEN Returned(top, Black, "black")
            ELSE [top EXCEPT !.energy = Faded(top.bounce, top.energy), !.pc = "scan"]]

\* The termination test and the energy fade.
Enter ==
    /\ stack /= <<>>
    /\ Top.pc = "enter"
    /\ stack' = EnterStep(stack)
    /\ UNCHANGED <<scene, color, others>>

\* The light tested last, against the nearest of all the surfaces.
ScanFrameLightLast(s, f, is) ==
    LET room == RoomCandidate(s, is.room)
        cs   == ScanCandles(s, is, 1, ScanMirrors(s, is, 1, room))
        all  == ScanHumans(s, is, 1, cs.nearest)
        g    == [f EXCEPT !.isect = is, !.ntests = @ + 1]
    IN  IF LightShortCircuit(is.light, all.t)
        THEN Returned(g, LightEmission(s), "light")
        ELSE IF cs.flame /= 0
        THEN Returned(g, FlameEmission(s, cs.flame), "flame")
        ELSE [g EXCEPT !.nearest = all, !.pc = "resolve"]

\* The body of the nearest-hit search for the ray whose intersections are is.
ScanFrame(s, f, is) ==
    LET room == RoomCandidate(s, is.room)
        cs   == ScanCandles(s, is, 1, ScanMirrors(s, is, 1, room))
        g    == [f EXCEPT !.isect = is, !.ntests = @ + 1]
    IN  IF LightShortCircuit(is.light, room.t)
        THEN Returned(g, LightEmission(s), "light")
        ELSE IF cs.flame /= 0
        THEN Returned(g, FlameEmission(s, cs.flame), "flame")
        ELSE [g EXCEPT !.nearest = ScanHumans(s, is, 1, cs.nearest), !.pc = "resolve"]

ScanStep(s, stk, is) == [stk EXCEPT ![Len(stk)] = ScanFrame(s, stk[Len(stk)], is)]

\* The nearest-hit search: room, light, mirrors, candles, humans.
Scan ==
    /\ stack /= <<>>
    /\ Top.pc = "scan"
    /\ \E is \in Isects(scene) : stack' = ScanStep(scene, stack, is)
    /\ UNCHANGED <<scene, color, others>>

\* Mutant: the resolved surface's colour is kept in the Scene, as a cache would.
ResolveCachingColor ==
    /\ stack /= <<>>
    /\ Top.pc = "resolve"
    /\ stack' = SetTop([Top EXCEPT !.isect = NoIsect, !.nearest.t = None,
                        !.pc = IF Top.nearest.t = None THEN "done"
                               ELSE IF Reflects(Top.nearest.reflectivity)
                               THEN "reflect" ELSE "shade"])
    /\ scene' = [scene EXCEPT !.room.wall_color = Top.nearest.color]
    /\ UNCHANGED <<color, others>>

\* After the search: the sky when nothing was hit, else the hit point
\* (hit = ro + rd * nearest_t) and the choice between the reflection and the
\* diffuse branch.  The hit point stands for the ray from here on: the
\* distances of the search are not read again and are not carried further.
\* (dy is rd[1], the ray's vertical direction, read by the sky only.)
ResolveStep(stk, dy) ==
    LET top == stk[Len(stk)]
    IN  [stk EXCEPT ![Len(stk)] =
            IF top.nearest.t = None
            THEN Returned([top EXCEPT !.isect = NoIsect], Sky(dy), "sky")
            ELSE [top EXCEPT !.isect = NoIsect, !.nearest.t = None,
                             !.pc = IF Reflects(top.nearest.reflectivity)
                                    THEN "reflect" ELSE "shade"]]

\* The vertical directions of the rays that reach the sky.
SkyDirs == {-Scale, 0, Scale}

Resolve ==
    /\ stack /= <<>>
    /\ Top.pc = "resolve"
    /\ \E dy \in (IF Top.nearest.t = None THEN SkyDirs ELSE {0}) :
          stack' = ResolveStep(stack, dy)
    /\ UNCHANGED <<scene, color, others>>

ReflectStep(stk) ==
    LET top == stk[Len(stk)]
    IN  Append([stk EXCEPT ![Len(stk)] = [top EXCEPT !.pc = "call", !.ncalls = @ + 1]],
               Frame(top.max_bounces, NextBounce(top.bounce), NewEnergy(top.energy)))

\* The recursive call of the reflection branch.
Reflect ==
    /\ stack /= <<>>
    /\ Top.pc = "reflect"
    /\ stack' = ReflectStep(stack)
    /\ UNCHANGED <<scene, color, others>>

ReturnStep(stk) ==
    LET top    == stk[Len(stk)]
        caller == stk[Len(stk) - 1]
    IN  [SubSeq(stk, 1, Len(stk) - 1) EXCEPT ![Len(stk) - 1] =
            Returned([caller EXCEPT !.reflected_color = top.result],
                     ReflectedResult(top.result, caller.nearest.reflectivity,
                                     caller.energy),
                     "reflect")]

\* The recursive call returns: the caller scales the colour and returns.
Return ==
    /\ Len(stack) >= 2
    /\ Top.pc = "done"
    /\ stack' = ReturnStep(stack)
    /\ UNCHANGED <<scene, color, others>>

ShadeStep(s, stk, lg) ==
    LET top == stk[Len(stk)]
    IN  [stk EXCEPT ![Len(stk)] =
            Returned([top EXCEPT !.lg = lg,
                                 !.blocked = Blocked(s, lg),
                                 !.shadow_tests = ShadowTests(s, lg).tests],
                     DiffuseColor(s, top.nearest.color, top.energy, lg), "diffuse")]

\* Lighting calculation, shadow ray and Lambertian shading.
Shade ==
    /\ stack /= <<>>
    /\ Top.pc = "shade"
    /\ \E lg \in LightGeoms(scene) : stack' = ShadeStep(scene, stack, lg)
    /\ UNCHANGED <<scene, color, others>>

\* The outermost invocation returns to its caller.
Finish ==
    /\ Len(stack) = 1
    /\ Top.pc = "done"
    /\ color' = Top.result
    /\ stack' = <<>>
    /\ UNCHANGED <<scene, others>>

Next ==
    \/ TraceCall
    \/ Enter
    \/ Scan
    \/ Resolve
    \/ Reflect
    \/ Return
    \/ Shade
    \/ Finish

Spec == Init /\ [][Next]_vars

\* --------------------------------------------- concurrent evaluations

\* Per-pixel evaluations of trace over one Scene, run by concurrent workers
\* whose steps interleave.  Each worker traces its own camera ray with the
\* renderer's arguments (max_bounces of the render settings, bounce 0, energy
\* 1.0); its call stack, its locals and its result are its own, the Scene is
\* shared.
ThreadIds == {1, 2}

\* What the intersectors return for a worker's ray: at a given bounce they
\* are functions of the ray and the scene, so a ray is given by their results
\* for the camera ray (first) and for its reflections (rest), and by the
\* geometry of the point it ends on (lg, dy).
ThreadIsects(s) ==
    {[room    |-> [t |-> 2 * DistStep, n |-> <<Scale, 0, 0>>],
      light   |-> None,
      mirrors |-> [i \in 1..Len(s.mirrors) |-> m],
      candles |-> [i \in 1..Len(s.candles) |-> [t |-> None, part |-> "none"]],
      humans  |-> [i \in 1..Len(s.human_models) |-> h]] :
        m \in {None, DistStep}, h \in {None, DistStep}}

ThreadLightGeoms(s) ==
    {[dist |-> 2 * DistStep, ndotl |-> Scale, shadow_light |-> None, shadow_room |-> r,
      shadow_candles |-> [i \in 1..Len(s.candles) |-> None],
      shadow_humans  |-> [i \in 1..Len(s.human_models) |-> None]] :
        r \in {None, DistStep}}

ThreadRays(s) ==
    [first : ThreadIsects(s),
     rest  : {is \in ThreadIsects(s) : \A i \in DOMAIN is.humans : is.humans[i] = None},
     lg    : ThreadLightGeoms(s),
     dy    : {0}]

IdleThread == [pc |-> "idle", ray |-> <<>>, stack |-> <<>>, color |-> Black]

\* One step of the evaluation whose call stack is stk, for the ray given.
Step(s, stk, ray) ==
    LET top == stk[Len(stk)]
    IN  CASE top.pc = "enter"   -> EnterStep(stk)
          [] top.pc = "scan"    -> ScanStep(s, stk, IF top.bounce = 0 THEN ray.first
                                                     ELSE ray.rest)
          [] top.pc = "resolve" -> ResolveStep(stk, ray.dy)
          [] top.pc = "reflect" -> ReflectStep(stk)
          [] top.pc = "shade"   -> ShadeStep(s, stk, ray.lg)
          [] top.pc = "done"    -> ReturnStep(stk)

\* The outermost invocation has returned.
Finished(stk) == Len(stk) = 1 /\ stk[1].pc = "done"

ParallelInit ==
    /\ \E sd \in {Mixed, FacingMirrors} : scene = SceneOf(sd)
    /\ threads = [w \in ThreadIds |-> IdleThread]
    /\ stack = <<>>
    /\ color = Black
    /\ call = NoCall
    /\ ret = NoRet

\* A worker takes a pixel and calls scene.trace(cam_pos, rd, max_bounces, 0, 1.0).
ThreadCall(w) ==
    /\ threads[w].pc = "idle"
    /\ \E r \in ThreadRays(scene) :
          threads' = [threads EXCEPT ![w] =
              [pc |-> "running", ray |-> r, color |-> Black,
               stack |-> <<Frame(RenderMaxBounces(scene), 0, Scale)>>]]
    /\ UNCHANGED <<scene, stack, color, call, ret>>

\* Mutant: the nearest-hit candidate is kept in one place for all workers.
ThreadStepSharedNearest(w) ==
    /\ threads[w].pc = "running"
    /\ ~Finished(threads[w].stack)
    /\ LET stk == Step(scene, threads[w].stack, threads[w].ray)
       IN  threads' = [v \in ThreadIds |->
              IF v = w THEN [threads[v] EXCEPT !.stack = stk]
              ELSE IF threads[v].pc = "running"
                   THEN [threads[v] EXCEPT !.stack[Len(threads[v].stack)].nearest =
                            stk[Len(stk)].nearest]
                   ELSE threads[v]]
    /\ UNCHANGED <<scene, stack, color, call, ret>>

\* A worker's evaluation takes one step.
ThreadStep(w) ==
    /\ threads[w].pc = "running"
    /\ ~Finished(threads[w].stack)
    /\ threads' = [threads EXCEPT ![w].stack = Step(scene, @, threads[w].ray)]
    /\ UNCHANGED <<scene, stack, color, call, ret>>

\* A worker's evaluation returns the pixel's colour.
ThreadFinish(w) ==
    /\ threads[w].pc = "running"
    /\ Finished(threads[w].stack)
    /\ threads' = [threads EXCEPT ![w].pc = "finished",
                                  ![w].color = threads[w].stack[1].result,
                                  ![w].stack = <<>>]
    /\ UNCHANGED <<scene, stack, color, call, ret>>

ParallelNext ==
    \/ \E w \in ThreadIds : ThreadCall(w)
    \/ \E w \in ThreadIds : ThreadStep(w)
    \/ \E w \in ThreadIds : ThreadFinish(w)

ParallelSpec == ParallelInit /\ [][ParallelNext]_vars

\* ------------------------------------------- the intersectors, called

\* The geometric functions applied to one ray each: call holds the function
\* and its arguments, ret what it returns or raises.  Directions are what the
\* callers pass: the result of norm, a unit vector or the zero vector.

Zero == <<0, 0, 0>>

\* 1e-4, the offset of the reflected ray's origin along the normal
ReflectOffset == 100

\* The room box of the configurations and its centre.
BoxMin == SceneOf(EmptyRoom).room_min

BoxMax == SceneOf(EmptyRoom).room_max

BoxCenter == RoomConfig.center

\* Ray origins around the room: a grid about its centre, points inside it,
\* and points from which the centre is seen just inside the edge between the
\* ceiling and a wall.
BoxOrigins ==
    {add(BoxCenter, <<dx * Scale, dy * Scale, dz * Scale>>) :
        dx \in {-10, 0, 10}, dy \in {-6, 0, 6}, dz \in {-10, 0, 10}}
    \cup {<<Scale, Scale, Scale>>, <<-4 * Scale, 5 * Scale, 2 * Scale>>}
    \cup {<<9999860, 9 * Scale, 0>>, <<0, 9 * Scale, -9999860>>,
          <<9 * Scale, 9 * Scale, 9 * Scale>>}

\* The directions a caller aims from origin o: at the target, along an axis,
\* and the zero vector norm returns for a degenerate input.
Aims(o, target) == {Zero, norm(sub(target, o)), <<0, 0, Scale>>, <<-Scale, 0, 0>>}

\* Origins strictly inside the room, three of them at 5e-5, 8e-5 and 1.5e-4
\* from a face.
InsideOrigins ==
    {BoxCenter, <<Scale, Scale, Scale>>, <<-4 * Scale, 5 * Scale, 2 * Scale>>,
     <<BoxMax[1] - 50, 3 * Scale, 0>>, <<0, BoxMin[2] + 80, 0>>,
     <<0, 3 * Scale, BoxMin[3] + 150>>}

\* Directions of rays traced inside the room.
InsideDirs ==
    {<<Scale, 0, 0>>, <<-Scale, 0, 0>>, <<0, Scale, 0>>, <<0, -Scale, 0>>,
     <<0, 0, Scale>>, <<0, 0, -Scale>>,
     norm(<<Scale, Scale, Scale>>), norm(<<-Scale, 2 * Scale, -2 * Scale>>)}

AabbCalls ==
    UNION {{[fn |-> "ray_aabb", ro |-> o, rd |-> d, bmin |-> BoxMin, bmax |-> BoxMax] :
               d \in {Zero, norm(sub(BoxCenter, o))}} : o \in BoxOrigins}
    \cup {[fn |-> "ray_aabb", ro |-> o, rd |-> d, bmin |-> BoxMin, bmax |-> BoxMax] :
             o \in InsideOrigins, d \in InsideDirs}

\* The light sphere of the configurations, 5 above the floor.
SphereCenter == <<0, 5 * Scale, 0>>

ShapeOrigins ==
    {<<0, 5 * Scale, 0>>, <<0, Scale, 0>>, <<3 * Scale, 5 * Scale, -4 * Scale>>,
     <<4 * Scale, 2 * Scale, 0>>, <<100000, 5 * Scale, 100000>>}

\* Origins about the light sphere: those of ShapeOrigins, and points outside
\* it at 5e-5, 7e-5, 2e-4 and 1e-3 from its surface.
SphereOrigins ==
    ShapeOrigins
    \cup {add(SphereCenter, <<LightConfig.radius + 50, 0, 0>>),
          add(SphereCenter, <<0, -(LightConfig.radius + 70), 0>>),
          add(SphereCenter, <<0, 0, LightConfig.radius + 200>>),
          add(SphereCenter, <<-(LightConfig.radius + 1000), 0, 0>>)}

SphereCalls ==
    UNION {{[fn |-> "ray_sphere", ro |-> o, rd |-> d,
             center |-> SphereCenter, radius |-> LightConfig.radius] :
               d \in Aims(o, SphereCenter)} : o \in SphereOrigins}

\* A mirror across the middle of the room, facing +z (its normal is not of
\* unit length in the configuration).
MirrorConfig ==
    [position |-> <<0, 3 * Scale, 0>>, normal |-> <<0, 0, 2 * Scale>>,
     size |-> <<2 * Scale, 2 * Scale>>]

PlaneCalls ==
    UNION {{[fn |-> "ray_plane", ro |-> o, rd |-> d,
             pos |-> MirrorConfig.position, normal |-> norm(MirrorConfig.normal)] :
               d \in Aims(o, MirrorConfig.position)} : o \in ShapeOrigins}

\* Rays about the cylinder of radius 0.3 and height 2 based at the origin:
\* through its open top onto the inside of its wall, over it, under it,
\* across it and along its axis.
CylinderRays ==
    {[ro |-> <<0, 3 * Scale, 0>>, rd |-> norm(<<Scale, -5 * Scale, 0>>)],
     [ro |-> <<-600000, 2600000, 0>>, rd |-> norm(<<Scale, -Scale, 0>>)],
     [ro |-> <<-600000, 2600000, 0>>, rd |-> <<Scale, 0, 0>>],
     [ro |-> <<-600000, -100000, 0>>, rd |-> norm(<<Scale, Scale, 0>>)],
     [ro |-> <<0, Scale, -2 * Scale>>, rd |-> <<0, 0, Scale>>],
     [ro |-> <<0, Scale, 0>>, rd |-> norm(<<Scale, 0, Scale>>)],
     [ro |-> <<Scale, Scale, 0>>, rd |-> <<Scale, 0, 0>>],
     [ro |-> <<100000, 3 * Scale, 0>>, rd |-> <<0, -Scale, 0>>],
     [ro |-> <<Scale, Scale, Scale>>, rd |-> <<0, 0, -Scale>>]}

CylinderCalls ==
    UNION {{[fn |-> "ray_cylinder", ro |-> o, rd |-> d,
             center |-> <<0, 0, 0>>, radius |-> 300000, height |-> 2 * Scale] :
               d \in Aims(o, <<0, Scale, 0>>)} : o \in ShapeOrigins}
    \cup {[fn |-> "ray_cylinder", ro |-> r.ro, rd |-> r.rd,
           center |-> <<0, 0, 0>>, radius |-> 300000, height |-> 2 * Scale] :
             r \in CylinderRays}

\* A candle with the default height and radius, and a short thick one.
CandleConfigs ==
    {[position |-> <<0, 0, 0>>],
     [position |-> <<0, Scale, 0>>, height |-> Scale, radius |-> 300000]}

\* Horizontal rays towards the candle's axis, from 5 away, at heights from
\* the candle's base to above its flame.
CandleCalls ==
    {[fn |-> "intersect_candle", ro |-> <<5 * Scale, c.position[2] + k * 100000, 0>>,
      rd |-> <<-Scale, 0, 0>>, candle |-> c] : c \in CandleConfigs, k \in 0..24}

\* Rays that meet the mirror from its front (z > 0) and from its back.
MirrorCalls ==
    {[fn |-> "trace", ro |-> o, rd |-> norm(sub(target, o)), mirror |-> MirrorConfig] :
        o \in {<<0, 3 * Scale, 4 * Scale>>, <<Scale, 2 * Scale, -4 * Scale>>,
               <<-2 * Scale, 3 * Scale, -Scale>>, <<0, 4 * Scale, 2 * Scale>>},
        target \in {<<Scale, 3 * Scale, 0>>, <<0, Scale, 0>>, <<-3 * Scale, 4 * Scale, 0>>}}

\* Directions, of unit length and not.
ReflectDirs ==
    {<<0, 0, Scale>>, <<600000, 0, -800000>>, norm(<<Scale, -2 * Scale, 2 * Scale>>),
     <<3 * Scale, -4 * Scale, 0>>, <<Scale, Scale, Scale>>, Zero}

\* Normals: the axes and normalised vectors, which are what trace passes, the
\* zero vector norm returns for a degenerate normal, and vectors that are not
\* of unit length.
ReflectNormals ==
    {<<0, Scale, 0>>, <<0, 0, -Scale>>, <<-600000, 800000, 0>>,
     norm(<<Scale, Scale, Scale>>), norm(MirrorConfig.normal), Zero,
     MirrorConfig.normal, <<0, 500000, 0>>, <<Scale, Scale, 0>>}

ReflectCalls == {[fn |-> "reflect", rd |-> d, n |-> n] : d \in ReflectDirs, n \in ReflectNormals}

\* 1e-4, the offset of the shadow ray's origin along the normal
ShadowOffset == 100

\* Positions of the light inside the room: under the ceiling's middle, in a
\* corner, low in the middle.
LightPositions ==
    {SphereCenter, <<4500000, 5500000, -4 * Scale>>, <<-Scale, 500000, 2 * Scale>>}

\* Rays traced in the bare room from inside it, for several lights, light
\* intensities and ray energies.
RoomCalls ==
    {[fn |-> "Scene.trace", ro |-> o, rd |-> d, energy |-> e,
      light |-> [position |-> lp, radius |-> LightConfig.radius, intensity |-> li]] :
        o \in {BoxCenter, <<Scale, Scale, Scale>>, <<-4 * Scale, 5 * Scale, 2 * Scale>>,
               <<-Scale, 3 * Scale, 2 * Scale>>},
        d \in InsideDirs \cup {Zero, norm(<<5 * Scale, 3 * Scale, 0>>)},
        e \in {Scale, Scale \div 2},
        lp \in LightPositions,
        li \in {LightConfig.intensity, <<10 * Scale, 10 * Scale, 10 * Scale>>}}

\* Surface points about the light, given by their offset from its centre:
\* far from it, at 5e-4, 5e-5 and 0 from its surface, inside it and at its
\* centre.
ShadedOffsets ==
    {<<0, -5 * Scale, 0>>, <<3 * Scale, -2 * Scale, -4 * Scale>>,
     <<5 * Scale, -4 * Scale, 5 * Scale>>,
     <<LightConfig.radius + 500, 0, 0>>, <<0, LightConfig.radius + 50, 0>>,
     <<0, 0, -LightConfig.radius>>, <<100000, 0, 100000>>, Zero}

\* The normals at such a point: the axes, towards the light and away from
\* it, and the zero vector of a degenerate normal.
ShadedNormals(to_light) ==
    {<<Scale, 0, 0>>, <<-Scale, 0, 0>>, <<0, Scale, 0>>, <<0, -Scale, 0>>,
     <<0, 0, Scale>>, <<0, 0, -Scale>>, norm(to_light), mul(norm(to_light), -Scale), Zero}

ShadowCalls ==
    UNION {{[fn |-> "shadow ray", hit |-> add(SphereCenter, o), n |-> n,
             light |-> [position |-> SphereCenter, radius |-> LightConfig.radius]] :
               n \in ShadedNormals(sub(Zero, o))} : o \in ShadedOffsets}

GeoCalls ==
    AabbCalls \cup SphereCalls \cup PlaneCalls \cup CylinderCalls
       \cup CandleCalls \cup MirrorCalls \cup ReflectCalls

GeoInit ==
    /\ scene = SceneOf(EmptyRoom)
    /\ stack = <<>>
    /\ color = Black
    /\ threads = <<>>
    /\ call \in GeoCalls
    /\ ret = NoRet

RayAabb ==
    /\ call.fn = "ray_aabb" /\ ret = NoRet
    /\ ret' = ray_aabb(call.ro, call.rd, call.bmin, call.bmax)
    /\ UNCHANGED <<scene, stack, color, threads, call>>

RaySphere ==
    /\ call.fn = "ray_sphere" /\ ret = NoRet
    /\ ret' = ray_sphere(call.ro, call.rd, call.center, call.radius)
    /\ UNCHANGED <<scene, stack, color, threads, call>>

RayPlane ==
    /\ call.fn = "ray_plane" /\ ret = NoRet
    /\ ret' = ray_plane(call.ro, call.rd, call.pos, call.normal)
    /\ UNCHANGED <<scene, stack, color, threads, call>>

RayCylinder ==
    /\ call.fn = "ray_cylinder" /\ ret = NoRet
    /\ ret' = ray_cylinder(call.ro, call.rd, call.center, call.radius, call.height)
    /\ UNCHANGED <<scene, stack, color, threads, call>>

IntersectCandle ==
    /\ call.fn = "intersect_candle" /\ ret = NoRet
    /\ ret' = intersect_candle(call.ro, call.rd, call.candle)
    /\ UNCHANGED <<scene, stack, color, threads, call>>

\* The ray the reflection branch spawns at the hit (t, n) of the ray (ro, rd):
\* reflected_ro = hit + 1e-4 * n, reflected_rd = reflect(rd, n).
ReflectedRay(ro, rd, t, n) ==
    [ro |-> add(add(ro, mul(rd, t)), mul(n, ReflectOffset)), rd |-> reflect(rd, n)]

\* trace on a ray whose nearest hit is the mirror: the mirror's hit, the ray
\* spawned by the reflection branch, and what intersect_mirror returns for
\* that ray and the same mirror in the recursive invocation's search.
TraceMirror ==
    /\ call.fn = "trace" /\ ret = NoRet
    /\ LET first == intersect_mirror(call.ro, call.rd, call.mirror)
           ray   == ReflectedRay(call.ro, call.rd, first.t, first.n)
       IN  ret' = IF ~first.hit
                  THEN [status |-> "returned", first |-> first]
                  ELSE [status |-> "returned", first |-> first, reflected |-> ray,
                        again |-> intersect_mirror(ray.ro, ray.rd, call.mirror)]
    /\ UNCHANGED <<scene, stack, color, threads, call>>

\* ray_aabb's t as one number, or None (the distance of a ray that is not
\* parallel to a slab it starts outside of fits one integer).
DistOf(h) == IF ~h.hit THEN None ELSE Narrow(h.t)

\* ro + rd * t for the t of ray_aabb
PointAt(ro, rd, t) ==
    [i \in 1..3 |-> IF rd[i] = 0 THEN ro[i] ELSE ro[i] + FMul(rd[i], Narrow(t))]

\* Scene.trace in the bare room s on the ray (ro, rd): the room and the light
\* tests of the search, and for a room face the lighting calculation with its
\* shadow ray, from the geometry.
TraceInRoom(s, ro, rd, energy) ==
    LET room      == ray_aabb(ro, rd, s.room_min, s.room_max)
        light     == ray_sphere(ro, rd, s.light.position, s.light.radius)
        hit       == PointAt(ro, rd, room.t)
        to_light  == sub(s.light.position, hit)
        ldir      == norm(to_light)
        shadow_ro == add(hit, mul(room.n, ShadowOffset))
        lg        == [dist           |-> length(to_light),
                      ndotl          |-> dot(room.n, ldir),
                      shadow_light   |-> ray_sphere(shadow_ro, ldir,
                                                s.light.position, s.light.radius).t,
                      shadow_room    |-> DistOf(ray_aabb(shadow_ro, ldir,
                                                s.room_min, s.room_max)),
                      shadow_candles |-> <<>>,
                      shadow_humans  |-> <<>>]
    IN  IF light.status /= "returned" THEN [status |-> light.status]
        ELSE IF light.hit /\ (~room.hit \/ WLess(Wide(light.t), room.t))
        THEN [status |-> "returned", via |-> "light", color |-> LightEmission(s)]
        ELSE IF ~room.hit
        THEN [status |-> "returned", via |-> "sky", color |-> Sky(rd[2])]
        ELSE [status |-> "returned", via |-> "diffuse",
              t |-> room.t, n |-> room.n, hit |-> hit,
              nearest_color |-> get_room_face_color(s, room.n),
              shadow_ro |-> shadow_ro, lg |-> lg,
              blocked |-> Blocked(s, lg), direct |-> Direct(s, lg),
              color |-> DiffuseColor(s, get_room_face_color(s, room.n), energy, lg)]

TraceRoom ==
    /\ call.fn = "Scene.trace" /\ ret = NoRet
    /\ ret' = TraceInRoom([scene EXCEPT !.light = call.light], call.ro, call.rd, call.energy)
    /\ UNCHANGED <<scene, stack, color, threads, call>>

\* The shadow ray of the lighting calculation at the point hit with the
\* normal nearest_n, and its first test, against the light sphere.
ShadowRay(hit, nearest_n, light) ==
    LET to_light      == sub(light.position, hit)
        dist_to_light == length(to_light)
        ldir          == norm(to_light)
        shadow_ro     == add(hit, mul(nearest_n, ShadowOffset))
        shadow        == ray_sphere(shadow_ro, ldir, light.position, light.radius)
    IN  [status |-> shadow.status, dist_to_light |-> dist_to_light, ldir |-> ldir,
         shadow_ro |-> shadow_ro, shadow_t |-> shadow.t,
         blocked |-> ShadowHit(shadow.t, ShadowLimit(dist_to_light, light.radius))]

TraceShadow ==
    /\ call.fn = "shadow ray" /\ ret = NoRet
    /\ ret' = ShadowRay(call.hit, call.n, call.light)
    /\ UNCHANGED <<scene, stack, color, threads, call>>

ReflectCall ==
    /\ call.fn = "reflect" /\ ret = NoRet
    /\ ret' = [status |-> "returned", v |-> reflect(call.rd, call.n)]
    /\ UNCHANGED <<scene, stack, color, threads, call>>

GeoNext ==
    \/ ReflectCall
    \/ RayAabb
    \/ RaySphere
    \/ RayPlane
    \/ RayCylinder
    \/ IntersectCandle
    \/ TraceMirror

GeoSpec == GeoInit /\ [][GeoNext]_vars

\* The lighting calculation of Scene.trace in the bare room: one invocation
\* on a ray from inside the room, or one shadow ray towards the light.
LightingCalls == RoomCalls \cup ShadowCalls

LightingInit ==
    /\ scene = SceneOf(EmptyRoom)
    /\ stack = <<>>
    /\ color = Black
    /\ threads = <<>>
    /\ call \in LightingCalls
    /\ ret = NoRet

LightingNext ==
    \/ TraceRoom
    \/ TraceShadow

LightingSpec == LightingInit /\ [][LightingNext]_vars

\* ------------------------------------------- loading a configuration

\* The main program: load_scene, validate_scene, then render, which builds
\* the Scene, reads the camera and the render settings and traces the camera
\* rays.  Of a configuration only its shape matters here: which groups and
\* fields it has, how many entries a vector has and whether they are numbers.
\* An entry is written "number" or "string".

Vec3 == <<"number", "number", "number">>

BaseConfig ==
    [camera       |-> [position |-> Vec3, look_at |-> Vec3, fov |-> "number"],
     room         |-> [size |-> Vec3, center |-> Vec3, floor_color |-> Vec3,
                       ceiling_color |-> Vec3, wall_color |-> Vec3],
     light        |-> [position |-> Vec3, intensity |-> Vec3, radius |-> "number"],
     render       |-> [width |-> "number", height |-> "number"],
     mirrors      |-> <<[position |-> Vec3, normal |-> Vec3,
                         size |-> <<"number", "number">>]>>,
     candles      |-> <<[position |-> Vec3]>>,
     human_models |-> <<[position |-> Vec3, color |-> Vec3]>>]

ListGroups == {"mirrors", "candles", "human_models"}

\* A group's record (of a list group, its first element's).
GroupOf(cfg, g) == IF g \in ListGroups THEN cfg[g][1] ELSE cfg[g]

WithGroup(cfg, g, r) ==
    IF g \in ListGroups THEN [cfg EXCEPT ![g] = <<r>>] ELSE [cfg EXCEPT ![g] = r]

Without(r, k) == [x \in DOMAIN r \ {k} |-> r[x]]

\* The 3-component fields of a configuration.
VectorFields ==
    {<<"camera", "position">>, <<"camera", "look_at">>,
     <<"room", "size">>, <<"room", "center">>, <<"room", "floor_color">>,
     <<"room", "ceiling_color">>, <<"room", "wall_color">>,
     <<"light", "position">>, <<"light", "intensity">>,
     <<"mirrors", "position">>, <<"mirrors", "normal">>,
     <<"human_models", "position">>, <<"candles", "position">>}

BadVectors ==
    {<<"number", "number">>, <<"number", "number", "number", "number">>,
     <<"number", "string", "number">>}

\* The complete configuration and every configuration with one defect: a
\* group missing, a field missing, a vector of the wrong length or with an
\* entry that is not a number.
LoadConfigs ==
    {BaseConfig}
    \cup {Without(BaseConfig, g) : g \in DOMAIN BaseConfig}
    \cup UNION {{WithGroup(BaseConfig, g, Without(GroupOf(BaseConfig, g), f)) :
                    f \in DOMAIN GroupOf(BaseConfig, g)} : g \in DOMAIN BaseConfig}
    \cup {WithGroup(BaseConfig, p[1], [GroupOf(BaseConfig, p[1]) EXCEPT ![p[2]] = v]) :
             p \in VectorFields, v \in BadVectors}

\* The first exception of a sequence of outcomes, "ok" when there is none.
FirstError(es) ==
    IF \A i \in DOMAIN es : es[i] = "ok" THEN "ok"
    ELSE es[CHOOSE i \in DOMAIN es : es[i] /= "ok" /\ \A j \in 1..(i - 1) : es[j] = "ok"]

\* d[k]
KeyRead(d, k) == IF k \in DOMAIN d THEN "ok" ELSE "KeyError"

\* d[k] used as a number
NumRead(d, k) ==
    IF k \notin DOMAIN d THEN "KeyError"
    ELSE IF d[k] /= "number" THEN "TypeError" ELSE "ok"

\* d[k] used as a vector: entries 0, 1, 2 read and calculated with
VecRead(d, k) ==
    IF k \notin DOMAIN d THEN "KeyError"
    ELSE IF Len(d[k]) < 3 THEN "IndexError"
    ELSE IF \E i \in 1..3 : d[k][i] /= "number" THEN "TypeError" ELSE "ok"

\* validate_scene: the assertions in order; True when all pass.
validate_scene(cfg) ==
    /\ "camera" \in DOMAIN cfg
    /\ "room" \in DOMAIN cfg
    /\ "light" \in DOMAIN cfg
    /\ "render" \in DOMAIN cfg
    /\ "position" \in DOMAIN cfg.camera /\ Len(cfg.camera.position) = 3
    /\ "look_at" \in DOMAIN cfg.camera /\ Len(cfg.camera.look_at) = 3
    /\ "fov" \in DOMAIN cfg.camera
    /\ "size" \in DOMAIN cfg.room /\ Len(cfg.room.size) = 3
    /\ "center" \in DOMAIN cfg.room /\ Len(cfg.room.center) = 3
    /\ "position" \in DOMAIN cfg.light /\ Len(cfg.light.position) = 3
    /\ "intensity" \in DOMAIN cfg.light /\ Len(cfg.light.intensity) = 3

\* Scene.__init__: the reads of the constructor.
SceneInit(scene_data) ==
    IF "room" \notin DOMAIN scene_data \/ "light" \notin DOMAIN scene_data THEN "KeyError"
    ELSE FirstError(<<VecRead(scene_data.room, "size"), VecRead(scene_data.room, "center")>>)

\* render: the reads between the construction of the Scene and the pixel loop.
RenderSetup(scene_data) ==
    IF "camera" \notin DOMAIN scene_data \/ "render" \notin DOMAIN scene_data THEN "KeyError"
    ELSE FirstError(<<NumRead(scene_data.render, "width"),
                      NumRead(scene_data.render, "height"),
                      NumRead(scene_data.camera, "fov"),
                      VecRead(scene_data.camera, "position"),
                      VecRead(scene_data.camera, "look_at")>>)

\* The rays of the first trace call: the room face behind everything, and
\* whether a human figure is the nearest surface.
LoadRays == [face : {"floor_color", "ceiling_color", "wall_color"}, human : BOOLEAN]

\* Scene.trace on a camera ray that ends on a diffuse surface: the reads of
\* the search (room face colour, light, every mirror, candle and human) and
\* of the shading (light, the surface's colour).
TraceReads(scene_data, ray) ==
    LET mirrors == Get(scene_data, "mirrors", <<>>)
        candles == Get(scene_data, "candles", <<>>)
        humans  == Get(scene_data, "human_models", <<>>)
    IN  FirstError(
          <<KeyRead(scene_data.room, ray.face),
            VecRead(scene_data.light, "position"),
            NumRead(scene_data.light, "radius"),
            FirstError([i \in DOMAIN mirrors |->
                FirstError(<<VecRead(mirrors[i], "position"), VecRead(mirrors[i], "normal"),
                             KeyRead(mirrors[i], "size")>>)]),
            FirstError([i \in DOMAIN candles |-> VecRead(candles[i], "position")]),
            FirstError([i \in DOMAIN humans |->
                FirstError(<<VecRead(humans[i], "position"),
                             IF ray.human THEN KeyRead(humans[i], "color") ELSE "ok">>)]),
            VecRead(scene_data.light, "intensity"),
            IF ray.human /\ humans /= <<>> THEN VecRead(humans[1], "color")
            ELSE VecRead(scene_data.room, ray.face)>>)

\* How far the program has come; accepted tells that validate_scene passed.
Stage(name, accepted, error) == [status |-> name, accepted |-> accepted, error |-> error]

LoadInit ==
    /\ scene = SceneOf(EmptyRoom)
    /\ stack = <<>>
    /\ color = Black
    /\ threads = <<>>
    /\ \E cfg \in LoadConfigs : call = [fn |-> "main", scene_data |-> cfg]
    /\ ret = NoRet

\* validate_scene(scene_data)
ValidateScene ==
    /\ call.fn = "main" /\ ret = NoRet
    /\ ret' = IF validate_scene(call.scene_data)
              THEN Stage("validated", TRUE, "none")
              ELSE Stage("failed", FALSE, "AssertionError")
    /\ UNCHANGED <<scene, stack, color, threads, call>>

\* scene = Scene(scene_data)
Construct ==
    /\ ret.status = "validated"
    /\ LET e == SceneInit(call.scene_data)
       IN  ret' = IF e = "ok" THEN Stage("constructed", TRUE, "none")
                  ELSE Stage("failed", TRUE, e)
    /\ UNCHANGED <<scene, stack, color, threads, call>>

\* render, up to the pixel loop
Setup ==
    /\ ret.status = "constructed"
    /\ LET e == RenderSetup(call.scene_data)
       IN  ret' = IF e = "ok" THEN Stage("tracing", TRUE, "none")
                  ELSE Stage("failed", TRUE, e)
    /\ UNCHANGED <<scene, stack, color, threads, call>>

\* The first scene.trace call of the pixel loop.
TraceFirst ==
    /\ ret.status = "tracing"
    /\ \E ray \in LoadRays :
          LET e == TraceReads(call.scene_data, ray)
          IN  ret' = IF e = "ok" THEN Stage("traced", TRUE, "none")
                     ELSE Stage("failed in trace", TRUE, e)
    /\ UNCHANGED <<scene, stack, color, threads, call>>

LoadNext ==
    \/ ValidateScene
    \/ Construct
    \/ Setup
    \/ TraceFirst

LoadSpec == LoadInit /\ [][LoadNext]_vars

\* ------------------------------------------- the deflection validation

\* trace_ray_with_validation follows one ray from surface to surface and
\* records a segment per stretch.  call holds max_deflections, ret the locals
\* of the loop: segments (material and energy of each), energy,
\* deflection_count, and whether a break has left the loop.

\* max_deflections: int = 6
DefaultMaxDeflections == 6

\* nearest_reflectivity = 0.3 for a human figure
ValidationHumanReflectivity == 300000

\* energy *= 0.70 on a human figure
HumanLoss == 700000

\* energy *= 0.75 on a wall
WallLoss == 750000

\* energy *= math.exp(-0.3)
FinalFade == 300000

\* What is found along one stretch of the ray: the distances returned by
\* ray_aabb, ray_sphere on the light, intersect_mirror and intersect_human,
\* and whether the origin is further than 1.1 radii from the light's centre.
ValidationIsects(s) ==
    [room   : OptDists,
     far    : BOOLEAN,
     light  : OptDists,
     mirrors : [1..Len(s.mirrors) -> OptDists],
     humans  : [1..Len(s.human_models) -> OptDists]]

ValidationCandidate(t, material, reflectivity) ==
    [t |-> t, material |-> material, reflectivity |-> reflectivity]

RECURSIVE ValidationMirrors(_, _, _, _)
ValidationMirrors(s, is, i, nearest) ==
    IF i > Len(s.mirrors) THEN nearest
    ELSE ValidationMirrors(s, is, i + 1,
            IF Closer(is.mirrors[i], nearest.t)
            THEN ValidationCandidate(is.mirrors[i], "mirror",
                     Get(s.mirrors[i], "reflectivity", DefaultReflectivity))
            ELSE nearest)

RECURSIVE ValidationHumans(_, _, _, _)
ValidationHumans(s, is, i, nearest) ==
    IF i > Len(s.human_models) THEN nearest
    ELSE ValidationHumans(s, is, i + 1,
            IF Closer(is.humans[i], nearest.t)
            THEN ValidationCandidate(is.humans[i], "human", ValidationHumanReflectivity)
            ELSE nearest)

Segment(energy, material) == [energy |-> energy, material |-> material]

\* One pass of the while loop's body on the locals st.
LoopBody(s, st, is) ==
    LET room    == IF is.room /= None THEN ValidationCandidate(is.room, "wall", 0)
                   ELSE ValidationCandidate(None, "none", 0)
        nearest == ValidationHumans(s, is, 1, ValidationMirrors(s, is, 1, room))
        recorded == Append(st.segments, Segment(st.energy, nearest.material))
        count   == st.deflection_count + 1
        energy  == IF nearest.reflectivity > ReflectThreshold
                   THEN IF nearest.material = "mirror"
                        THEN FMul(st.energy, ReflectionEfficiency)
                        ELSE FMul(st.energy, HumanLoss)
                   ELSE FMul(st.energy, WallLoss)
    IN  IF is.far /\ Closer(is.light, room.t)
        THEN [st EXCEPT !.segments = Append(st.segments, Segment(st.energy, "light")),
                        !.broke = TRUE]
        ELSE IF nearest.t = None
        THEN [st EXCEPT !.segments = Append(st.segments, Segment(st.energy, "sky")),
                        !.broke = TRUE]
        ELSE IF nearest.reflectivity <= ReflectThreshold /\ nearest.material /= "wall"
        THEN [st EXCEPT !.segments = recorded, !.broke = TRUE]
        ELSE [st EXCEPT !.segments = recorded,
                        !.energy = IF count >= 6 THEN FMul(energy, ExpNeg(FinalFade))
                                   ELSE energy,
                        !.deflection_count = count]

\* The scenes traced: a mirror, a candle and a figure; two figures and a
\* mirror of reflectivity 0.01; the bare room.
ValidationScenes == {Mixed, Humans, EmptyRoom}

ValidationCalls ==
    {[fn |-> "trace_ray_with_validation", max_deflections |-> n] :
        n \in {0, 1, 2, DefaultMaxDeflections}}

ValidationInit ==
    /\ \E cfg \in ValidationScenes : scene = SceneOf(cfg)
    /\ stack = <<>>
    /\ color = Black
    /\ threads = <<>>
    /\ call \in ValidationCalls
    /\ ret = NoRet

\* segments = [], energy = 1.0, deflection_count = 0
BeginValidation ==
    /\ call.fn = "trace_ray_with_validation" /\ ret = NoRet
    /\ ret' = [status |-> "running", segments |-> <<>>, energy |-> Scale,
               deflection_count |-> 0, broke |-> FALSE]
    /\ UNCHANGED <<scene, stack, color, threads, call>>

\* while deflection_count < max_deflections: one pass
Deflection ==
    /\ ret.status = "running" /\ ~ret.broke
    /\ ret.deflection_count < call.max_deflections
    /\ \E is \in ValidationIsects(scene) : ret' = LoopBody(scene, ret, is)
    /\ UNCHANGED <<scene, stack, color, threads, call>>

\* return segments
ReturnSegments ==
    /\ ret.status = "running"
    /\ ret.broke \/ ~(ret.deflection_count < call.max_deflections)
    /\ ret' = [ret EXCEPT !.status = "returned"]
    /\ UNCHANGED <<scene, stack, color, threads, call>>

ValidationNext ==
    \/ BeginValidation
    \/ Deflection
    \/ ReturnSegments

ValidationSpec == ValidationInit /\ [][ValidationNext]_vars

\* ------------------------------------------------------------- claims

Frames == {stack[i] : i \in DOMAIN stack}

\* An invocation stopped by the termination test of its arguments.
Capped(f) == f.bounce >= f.max_bounces \/ f.energy_in < EnergyCutoff

\* C1: an invocation whose bounce is at least max_bounces, or whose energy
\* argument is below 0.005, returns (0,0,0) straight from the termination
\* test: it is never found at a later position of the body, it has made no
\* intersection test and no recursive call, and it is the innermost one.
C1_CappedReturnsBlack ==
    \A i \in DOMAIN stack :
        LET f == stack[i]
        IN  (Capped(f) /\ f.pc /= "enter") =>
               /\ f.pc = "done"
               /\ f.result = <<0, 0, 0>>
               /\ f.ntests = 0
               /\ f.ncalls = 0
               /\ i = Len(stack)

\* C1 witness: a recursive invocation inside its depth cap was entered with
\* an energy below 0.005 and has returned black; max_bounces = 0 has too.
C1_Witness ==
    /\ Len(stack) >= 2
    /\ Top.pc = "done"
    /\ Top.bounce < Top.max_bounces
    /\ Top.energy_in < EnergyCutoff
    /\ Top.result = Black

\* How far an invocation is from returning, by its position.
Rank(f) ==
    CASE f.pc = "enter" -> 5
      [] f.pc = "scan" -> 4
      [] f.pc = "resolve" -> 3
      [] f.pc \in {"reflect", "shade"} -> 2
      [] f.pc = "call" -> 1
      [] OTHER -> 0

RankAt(stk, i) == IF i \in DOMAIN stk THEN Rank(stk[i]) ELSE 0

\* A step of a running call moves some invocation nearer to its return and
\* leaves every invocation outside it where it was: the stack's ranks decrease
\* in the lexicographic order, which is well-founded on stacks of bounded depth.
Progresses ==
    \E i \in DOMAIN stack :
        /\ RankAt(stack', i) < RankAt(stack, i)
        /\ \A j \in 1..(i - 1) : RankAt(stack', j) = RankAt(stack, j)

\* The nesting of invocations: one recursive call each, same max_bounces,
\* bounce + 1, depth at most max_bounces + 1, no work at bounce >= max_bounces.
C2_Nesting ==
    /\ \A f \in Frames : f.ncalls <= 1
    /\ \A i \in DOMAIN stack :
          i < Len(stack) =>
             /\ stack[i].ncalls = 1
             /\ stack[i + 1].max_bounces = stack[i].max_bounces
             /\ stack[i + 1].bounce = stack[i].bounce + 1
    /\ (stack /= <<>> /\ stack[1].bounce = 0) => Len(stack) <= stack[1].max_bounces + 1
    /\ \A f \in Frames :
          (f.ntests > 0 \/ f.pc \in {"scan", "resolve", "reflect", "shade", "call"})
             => f.bounce < f.max_bounces

\* C2: every invocation makes at most one recursive call, which passes the
\* same max_bounces and bounce + 1; a call entered at bounce 0 with
\* max_bounces = M never has more than M + 1 nested invocations, and no
\* invocation works past the termination test at bounce >= M; the call always
\* terminates: while it runs, the innermost invocation can always take a step,
\* and every step decreases the well-founded rank of the stack.
C2_RecursionBounded ==
    /\ []C2_Nesting
    /\ [](stack /= <<>> => Top.pc \in {"enter", "scan", "resolve", "reflect", "shade", "done"})
    /\ [][(stack /= <<>> /\ stack' /= <<>>) => Progresses]_vars

\* C2 witness: a call with max_bounces = 3 at its full depth of 4 invocations,
\* the innermost stopped by the depth cap.
C2_Witness ==
    /\ Len(stack) = 4
    /\ stack[1].bounce = 0
    /\ stack[1].max_bounces = 3
    /\ Top.pc = "done"
    /\ Top.bounce = 3

\* The light sphere is the nearest geometric hit of the ray.
LightNearest(is) ==
    /\ is.light /= None
    /\ is.room.t /= None => is.light < is.room.t
    /\ \A i \in DOMAIN is.mirrors : is.mirrors[i] /= None => is.light < is.mirrors[i]
    /\ \A i \in DOMAIN is.candles : is.candles[i].t /= None => is.light < is.candles[i].t
    /\ \A i \in DOMAIN is.humans : is.humans[i] /= None => is.light < is.humans[i]

\* C3: when the light sphere is the nearest geometric hit, the invocation
\* returns exactly 1.15 times the light's intensity in every channel, whatever
\* its energy and whatever lies behind the light.
C3_LightShortCircuit ==
    \A f \in Frames :
        (f.ntests > 0 /\ LightNearest(f.isect)) =>
            /\ f.pc = "done"
            /\ f.result = [c \in 1..3 |-> (scene.light.intensity[c] * 115) \div 100]

\* C3 witness: the light returned in front of a mirror, a candle and a human
\* figure, in an invocation whose energy is not 1.
C3_Witness ==
    /\ stack /= <<>>
    /\ Top.via = "light"
    /\ Top.energy /= Scale
    /\ Len(Top.isect.mirrors) = 1 /\ Top.isect.mirrors[1] /= None
    /\ Len(Top.isect.candles) = 1 /\ Top.isect.candles[1].t /= None
    /\ Len(Top.isect.humans) = 1 /\ Top.isect.humans[1] /= None
    /\ Top.isect.room.t /= None

\* The light test fires: the light is hit and the room is missed or farther.
LightFires(is) ==
    is.light /= None /\ (is.room.t = None \/ is.light < is.room.t)

\* The distances candle j is compared with: the room's, every mirror's and
\* the earlier candles' whose nearest part is the body.
BeforeCandle(is, j) ==
    {is.room.t} \cup {is.mirrors[i] : i \in DOMAIN is.mirrors}
       \cup {is.candles[k].t : k \in {k \in 1..(j - 1) : is.candles[k].part = "candle_body"}}

\* Candle j's nearest part is its flame, strictly nearer than all of them.
FlameWins(is, j) ==
    /\ is.candles[j].part = "candle_flame"
    /\ \A t \in BeforeCandle(is, j) : t /= None => is.candles[j].t < t

\* C4: when the light test did not fire, the first candle in list order whose
\* nearest part is its flame and is strictly nearer than the room, every
\* mirror and the earlier candle bodies makes the invocation return that
\* candle's flame_intensity (default (8,6,4)) from the search itself, however
\* near the later candles and the human figures are.
C4_FlameShortCircuit ==
    \A f \in Frames :
        (f.ntests > 0 /\ ~LightFires(f.isect)) =>
            \A j \in DOMAIN f.isect.candles :
                (FlameWins(f.isect, j) /\ \A k \in 1..(j - 1) : ~FlameWins(f.isect, k)) =>
                    /\ f.pc = "done"
                    /\ f.via = "flame"
                    /\ f.result = IF "flame_intensity" \in DOMAIN scene.candles[j]
                                  THEN scene.candles[j].flame_intensity
                                  ELSE <<8000000, 6000000, 4000000>>

\* C4 witness: the first candle's flame returned although the second candle
\* and the human figure are nearer along the ray.
C4_Witness ==
    /\ stack /= <<>>
    /\ Top.via = "flame"
    /\ Len(Top.isect.candles) = 2 /\ Len(Top.isect.humans) = 1
    /\ Top.isect.candles[1].part = "candle_flame"
    /\ Top.isect.candles[2].t /= None /\ Top.isect.candles[2].t < Top.isect.candles[1].t
    /\ Top.isect.humans[1] /= None /\ Top.isect.humans[1] < Top.isect.candles[1].t

\* The candidates of the search in scan order: room, mirrors, candles, humans.
Candidates(s, is) ==
    <<[t |-> is.room.t, material |-> "room",
       color |-> IF is.room.n[2] < -900000 THEN s.room.floor_color
                 ELSE IF is.room.n[2] > 900000 THEN s.room.ceiling_color
                 ELSE s.room.wall_color,
       reflectivity |-> 0]>>
    \o [i \in DOMAIN is.mirrors |->
          [t |-> is.mirrors[i], material |-> "mirror", color |-> <<0, 0, 0>>,
           reflectivity |-> IF "reflectivity" \in DOMAIN s.mirrors[i]
                            THEN s.mirrors[i].reflectivity ELSE 950000]]
    \o [i \in DOMAIN is.candles |->
          [t |-> is.candles[i].t,
           material |-> IF is.candles[i].part = "candle_flame" THEN "flame" ELSE "candle",
           color |-> IF "wax_color" \in DOMAIN s.candles[i]
                     THEN s.candles[i].wax_color ELSE <<900000, 900000, 950000>>,
           reflectivity |-> 0]]
    \o [i \in DOMAIN is.humans |->
          [t |-> is.humans[i], material |-> "human",
           color |-> s.human_models[i].color, reflectivity |-> 0]]

\* Candidate k is hit, no candidate is strictly nearer, and none before it in
\* scan order is as near.
FirstNearest(cs, k) ==
    /\ cs[k].t /= None
    /\ \A j \in DOMAIN cs : cs[j].t /= None =>
          (cs[k].t < cs[j].t \/ (cs[k].t = cs[j].t /\ k <= j))

\* C5: when neither the light nor a candle flame short-circuits the search,
\* the surface the invocation goes on to shade is the candidate with the
\* smallest hit distance among the room, every mirror, every candle and every
\* human figure, the earliest in scan order among equals, and the material,
\* colour and reflectivity used are that candidate's; if nothing is hit there
\* is no surface.
C5_NearestSurface ==
    \A f \in Frames :
        f.pc = "resolve" =>
            LET cs == Candidates(scene, f.isect)
            IN  /\ \A k \in DOMAIN cs : FirstNearest(cs, k) => f.nearest = cs[k]
                /\ (\A k \in DOMAIN cs : cs[k].t = None) => f.nearest.t = None

\* C5 witness: the mirror, the candle's body and the human figure are all hit
\* at the same distance, in front of the room, and the mirror, first of the
\* three in scan order, is the surface kept.
C5_Witness ==
    /\ stack /= <<>>
    /\ Top.pc = "resolve"
    /\ Len(Top.isect.mirrors) = 1 /\ Len(Top.isect.candles) = 1 /\ Len(Top.isect.humans) = 1
    /\ Top.isect.room.t = 2 * DistStep
    /\ Top.isect.mirrors[1] = DistStep
    /\ Top.isect.candles[1] = [t |-> DistStep, part |-> "candle_body"]
    /\ Top.isect.humans[1] = DistStep
    /\ Top.nearest.material = "mirror"

\* The energy an invocation works with once past the termination test: the
\* energy passed in, times exp(-(bounce - 6) * 0.25) from bounce 6 on.
FadedEnergy(f) ==
    IF f.bounce >= 6
    THEN FMul(f.energy_in, ExpNeg((f.bounce - 6) * 250000))
    ELSE f.energy_in

\* Invocation i has taken the reflection branch.
InReflection(i) == stack[i].pc \in {"reflect", "call"} \/ stack[i].via = "reflect"

\* The outermost invocation was called as the renderers call trace: bounce 0,
\* energy 1.0.
RendererCall == stack /= <<>> /\ stack[1].bounce = 0 /\ stack[1].energy_in = Scale

\* C6 as claimed, for the invocations of a renderer's call: an invocation
\* reflects exactly when its surface's reflectivity exceeds 0.01, and then it
\* makes its recursive call with bounce + 1 and 0.92 times the energy E it was
\* passed, and returns per channel reflectivity * E * C, C being the colour
\* the call returned.
C6_Original ==
    \A i \in DOMAIN stack :
        LET f == stack[i]
        IN  RendererCall =>
            /\ f.pc \in {"reflect", "shade"} => (f.pc = "reflect" <=> f.nearest.reflectivity > 10000)
            /\ (InReflection(i) /\ i < Len(stack)) =>
                  /\ stack[i + 1].bounce = f.bounce + 1
                  /\ stack[i + 1].energy_in = FMul(f.energy_in, 920000)
            /\ f.via = "reflect" =>
                  /\ f.ncalls = 1
                  /\ f.result = [c \in 1..3 |->
                        FMul(f.reflected_color[c], FMul(f.nearest.reflectivity, f.energy_in))]

\* C6 as amended: the same with E the invocation's energy after the fade of
\* bounce >= 6, which is the energy passed in only up to bounce 6.
C6_ReflectionScaling ==
    \A i \in DOMAIN stack :
        LET f == stack[i]
        IN  /\ f.pc \in {"reflect", "shade"} => (f.pc = "reflect" <=> f.nearest.reflectivity > 10000)
            /\ (InReflection(i) /\ i < Len(stack)) =>
                  /\ stack[i + 1].bounce = f.bounce + 1
                  /\ stack[i + 1].energy_in = FMul(FadedEnergy(f), 920000)
            /\ f.via = "reflect" =>
                  /\ f.ncalls = 1
                  /\ f.result = [c \in 1..3 |->
                        FMul(f.reflected_color[c], FMul(f.nearest.reflectivity, FadedEnergy(f)))]

\* C6 witness: an invocation at a bounce beyond 6 has returned the scaled
\* colour of its recursive call, which was not black.
C6_Witness ==
    \E f \in Frames :
        /\ f.via = "reflect"
        /\ f.bounce > 6
        /\ f.reflected_color /= Black
        /\ f.result /= f.reflected_color

\* C7: an invocation past the termination test works with the energy passed
\* in, multiplied by exp(-(bounce - 6) * 0.25) when bounce >= 6 and unchanged
\* below: during the search, in the diffuse shading and in the scaling of the
\* reflected colour.  The fade follows the energy test, so an invocation whose
\* faded energy is below 0.005 still searches and shades.
C7_EnergyFade ==
    \A i \in DOMAIN stack :
        LET f == stack[i]
        IN  /\ (f.pc \in {"scan", "resolve", "reflect", "shade", "call"} \/ f.ntests > 0) =>
                  /\ f.energy = FadedEnergy(f)
                  /\ f.bounce < 6 => f.energy = f.energy_in
            /\ f.via = "diffuse" =>
                  f.result = DiffuseColor(scene, f.nearest.color, FadedEnergy(f), f.lg)
            /\ f.via = "reflect" =>
                  f.result = mul(f.reflected_color,
                                 FMul(f.nearest.reflectivity, FadedEnergy(f)))
            /\ (f.pc = "enter" \/ f.via = "black") => f.energy = f.energy_in

\* C7 witness: an invocation at a bounce beyond 6 passed the energy test, its
\* faded energy is below 0.005, and it has shaded a surface.
C7_Witness ==
    /\ stack /= <<>>
    /\ Top.via = "diffuse"
    /\ Top.bounce > 6
    /\ Top.energy_in >= EnergyCutoff
    /\ Top.energy < EnergyCutoff
    /\ Top.energy < Top.energy_in

\* C8: in an invocation that reflects with a reflectivity of at most 1 and an
\* energy within [0,1], the colour returned is, per channel, no larger than
\* the colour returned by its recursive call.
C8_EnergyMonotone ==
    \A f \in Frames :
        (/\ f.via = "reflect"
         /\ f.nearest.reflectivity <= Scale
         /\ 0 <= f.energy_in /\ f.energy_in <= Scale) =>
            \A c \in 1..3 : f.result[c] <= f.reflected_color[c]

\* C8 witness: three nested reflections have returned, each with a colour
\* strictly below the one it received, the innermost from a diffuse surface.
C8_Witness ==
    /\ stack /= <<>>
    /\ Top.via = "reflect"
    /\ Top.bounce = 0
    /\ Top.energy_in = Scale
    /\ Top.max_bounces = 3
    /\ \A c \in 1..3 : 0 < Top.result[c] /\ Top.result[c] < Top.reflected_color[c]

\* 0.92^n in fixed point, n = 0..3
PowEfficiency == <<1000000, 920000, 846400, 778688>>

\* The renderer's call in the scene of two facing mirrors of reflectivity 0.95
\* with max_bounces = 3.
FacingMirrorsCall ==
    /\ scene.scene_data = FacingMirrors
    /\ stack /= <<>>
    /\ stack[1].max_bounces = 3
    /\ stack[1].bounce = 0
    /\ stack[1].energy_in = Scale

\* C9: between two facing mirrors of reflectivity 0.95, a trace started with
\* bounce 0, energy 1.0 and max_bounces 3 enters recursion depth n = 0..3 with
\* energy exactly 0.92^n, strictly less at each depth.
C9_EnergyPerBounce ==
    FacingMirrorsCall =>
        /\ Len(stack) <= 4
        /\ \A i \in DOMAIN stack :
              /\ stack[i].bounce = i - 1
              /\ stack[i].energy_in = PowEfficiency[i]
              /\ i > 1 => stack[i].energy_in < stack[i - 1].energy_in

\* C9 witness: the ray has bounced three times between the mirrors; the
\* invocation at depth 3 was entered.
C9_Witness ==
    /\ FacingMirrorsCall
    /\ Len(stack) = 4
    /\ \A i \in 1..3 : stack[i].nearest.reflectivity = 950000

\* C10: in a scene without mirrors no invocation makes a recursive call: every
\* surface resolves with reflectivity 0, and a camera ray (bounce 0) that hits
\* the room returns the face's configured colour shaded by the ambient and
\* direct terms only.
C10_NoMirrorsNoRecursion ==
    Len(scene.mirrors) = 0 =>
        /\ Len(stack) <= 1
        /\ \A f \in Frames :
              /\ f.ncalls = 0
              /\ f.pc \notin {"reflect", "call"}
              /\ f.via /= "reflect"
              /\ f.nearest.reflectivity = 0
              /\ (f.via = "diffuse" /\ f.nearest.material = "room" /\ f.bounce = 0) =>
                    /\ f.nearest.color \in {scene.room.floor_color,
                                             scene.room.ceiling_color, scene.room.wall_color}
                    /\ f.result = [c \in 1..3 |->
                          FMul(f.nearest.color[c],
                               100000 + FMul(FMul(Direct(scene, f.lg),
                                                  scene.light.intensity[c]), f.energy_in))]

\* C10 witness: in the empty room a camera ray has hit a wall and returned
\* its colour, lit directly by the light.
C10_Witness ==
    /\ scene.scene_data = EmptyRoom
    /\ stack /= <<>>
    /\ Top.via = "diffuse"
    /\ Top.bounce = 0
    /\ Top.energy_in = Scale
    /\ Top.nearest.color = scene.room.wall_color
    /\ ~Blocked(scene, Top.lg)
    /\ Top.result[1] > FMul(scene.room.wall_color[1], 100000)

\* C11: in the diffuse branch the returned channel c is
\* surface_color[c] * (0.1 + direct * light_intensity[c] * energy), where direct
\* is 0 when the shadow test declared occlusion and otherwise
\* max(0, N.L) * (1 / max(0.1, d^2)) * exp(-0.02 * d); the ambient 0.1 is not
\* scaled by the energy, so an occluded point returns 0.1 * surface_color.
C11_DiffuseShading ==
    \A f \in Frames :
        f.via = "diffuse" =>
            LET d      == f.lg.dist
                direct == IF f.blocked THEN 0
                          ELSE FMul(FMul(Max(0, f.lg.ndotl),
                                         FDiv(1000000, Max(100000, FMul(d, d)))),
                                    ExpNeg(FMul(d, 20000)))
            IN  /\ \A c \in 1..3 :
                      f.result[c] = FMul(f.nearest.color[c],
                          100000 + FMul(FMul(direct, scene.light.intensity[c]), f.energy))
                /\ f.blocked =>
                      \A c \in 1..3 : f.result[c] = FMul(f.nearest.color[c], 100000)

\* C11 witness: a lit point and an energy below 1 (a surface seen in a
\* mirror): the direct term is there, scaled by the energy.
C11_Witness ==
    /\ stack /= <<>>
    /\ Top.via = "diffuse"
    /\ ~Top.blocked
    /\ Top.lg.ndotl > 0
    /\ 0 < Top.energy /\ Top.energy < Scale
    /\ Top.result[1] > FMul(Top.nearest.color[1], 100000)

\* The shadow tests in their fixed order: the light sphere, the room, every
\* candle, every human figure.
ShadowPlan(s) ==
    << <<"light", 0>>, <<"room", 0>> >>
       \o [i \in 1..Len(s.candles) |-> <<"candle", i>>]
       \o [i \in 1..Len(s.human_models) |-> <<"human", i>>]

\* Test x of the shadow ray is positive.
ShadowPositive(s, lg, x) ==
    CASE x[1] = "light" -> lg.shadow_light /= None
                              /\ lg.shadow_light < lg.dist - s.light.radius - 1000
      [] x[1] = "room"  -> lg.shadow_room /= None /\ lg.shadow_room < lg.dist
      [] x[1] = "candle" -> lg.shadow_candles[x[2]] /= None
                              /\ lg.shadow_candles[x[2]] < lg.dist
      [] x[1] = "human" -> lg.shadow_humans[x[2]] /= None
                              /\ lg.shadow_humans[x[2]] < lg.dist

\* C12: occlusion is declared exactly when the shadow ray hits the light
\* sphere nearer than d - radius - 1e-3, or the room, a candle or a human
\* figure nearer than d; the tests are made in that order, every test made
\* before the last was negative, a positive test is the last one made, and
\* without one all are made.  No mirror is ever tested.
C12_ShadowOrder ==
    \A f \in Frames :
        f.via = "diffuse" =>
            LET plan  == ShadowPlan(scene)
                tests == f.shadow_tests
                n     == Len(tests)
            IN  /\ f.blocked <=> \E k \in DOMAIN plan : ShadowPositive(scene, f.lg, plan[k])
                /\ 1 <= n /\ n <= Len(plan)
                /\ tests = SubSeq(plan, 1, n)
                /\ \A k \in 1..(n - 1) : ~ShadowPositive(scene, f.lg, plan[k])
                /\ f.blocked <=> ShadowPositive(scene, f.lg, plan[n])
                /\ ~f.blocked => n = Len(plan)
                /\ \A k \in 1..n : tests[k][1] \in {"light", "room", "candle", "human"}

\* C12 witness: in a scene with a mirror, a candle and a human figure the
\* candle blocks the light; the human figure, also in the way, is not tested.
C12_Witness ==
    /\ stack /= <<>>
    /\ Top.via = "diffuse"
    /\ Len(scene.mirrors) = 1
    /\ Top.shadow_tests = << <<"light", 0>>, <<"room", 0>>, <<"candle", 1>> >>
    /\ Top.blocked
    /\ Top.lg.shadow_humans[1] /= None /\ Top.lg.shadow_humans[1] < Top.lg.dist

\* C14: the Scene is read-only during tracing.  Its fields stay what the
\* constructor made of the configuration, no step of any invocation changes
\* the Scene or a record reachable from it, and a step changes the locals of
\* the running invocation only (or of its caller, when it returns to it):
\* every invocation further out is left as it was.
C14_SceneReadOnly ==
    /\ [](scene = SceneOf(scene.scene_data))
    /\ [](\E i \in DOMAIN SceneData : scene.scene_data = SceneData[i])
    /\ [][scene' = scene]_vars
    /\ [][\A i \in DOMAIN stack :
             (i < Len(stack) /\ i < Len(stack')) => stack'[i] = stack[i]]_vars

\* C14 witness: three nested invocations have searched the scene, the
\* innermost has shaded a surface, and the Scene is as constructed.
C14_Witness ==
    /\ Len(stack) >= 3
    /\ Top.via = "diffuse"
    /\ \A i \in DOMAIN stack : stack[i].ntests = 1
    /\ scene = SceneOf(scene.scene_data)

\* The colour an evaluation returns when it runs alone from the stack stk.
RECURSIVE RunAlone(_, _, _)
RunAlone(s, stk, ray) ==
    IF Finished(stk) THEN stk[1].result ELSE RunAlone(s, Step(s, stk, ray), ray)

\* The colour of the renderer's call for a ray, run alone.
ColourAlone(s, ray) == RunAlone(s, <<Frame(RenderMaxBounces(s), 0, Scale)>>, ray)

\* C15: per-pixel tracing needs no synchronisation.  However the steps of the
\* workers interleave, each evaluation stays on the course it takes alone and
\* returns the colour it returns alone; evaluations of the same ray with the
\* same arguments return the same colour; a step of one worker changes
\* neither another worker's state nor the Scene.
C15_NoSynchronisation ==
    /\ [](\A w \in ThreadIds :
            /\ threads[w].pc = "running" =>
                  RunAlone(scene, threads[w].stack, threads[w].ray)
                     = ColourAlone(scene, threads[w].ray)
            /\ threads[w].pc = "finished" =>
                  threads[w].color = ColourAlone(scene, threads[w].ray))
    /\ [](\A v, w \in ThreadIds :
            (/\ threads[v].pc = "finished" /\ threads[w].pc = "finished"
             /\ threads[v].ray = threads[w].ray) => threads[v].color = threads[w].color)
    /\ [][/\ scene' = scene
          /\ \A v, w \in ThreadIds :
                (v /= w /\ threads'[w] /= threads[w]) => threads'[v] = threads[v]]_vars

\* C15 witness: two evaluations of different rays are both inside a
\* reflection at the same time, and one of them is past its search while
\* the other has yet to make its own.
C15_Witness ==
    /\ threads[1].pc = "running" /\ threads[2].pc = "running"
    /\ threads[1].ray /= threads[2].ray
    /\ Len(threads[1].stack) >= 2 /\ Len(threads[2].stack) >= 2
    /\ threads[1].stack[Len(threads[1].stack)].pc = "shade"
    /\ threads[2].stack[Len(threads[2].stack)].pc = "scan"

\* C13: for a ray whose direction is the zero vector, each of ray_aabb,
\* ray_sphere, ray_plane and ray_cylinder returns (None, None) and raises no
\* division by zero, whatever the origin and the shape.
C13_ZeroDirection ==
    (/\ call.fn \in {"ray_aabb", "ray_sphere", "ray_plane", "ray_cylinder"}
     /\ call.rd = <<0, 0, 0>>
     /\ ret /= NoRet) =>
        /\ ret.status = "returned"
        /\ ~ret.hit

\* C18: the ray the reflection branch spawns from hit + 1e-4 * n in direction
\* reflect(rd, n) does not intersect the mirror it was reflected from,
\* whichever side of the mirror's plane the incoming ray came from.
C18_NoSelfIntersection ==
    (call.fn = "trace" /\ ret /= NoRet /\ ret.first.hit) =>
        ~ret.again.hit

\* The flame sphere's centre, 0.15 above base + height.
FlameCentreY(c) ==
    c.position[2] + (IF "height" \in DOMAIN c THEN c.height ELSE 1500000) + 150000

\* C19: a candle's body spans vertically from its base p.y to p.y + height and
\* its flame sphere (radius 0.12 about p.y + height + 0.15) lies above the
\* body's top: of the horizontal rays through the candle's axis, exactly those
\* at a height within [p.y, p.y + height] hit the body, and those at a height
\* within the flame sphere hit the flame.
C19_FlameAboveBody ==
    (call.fn = "intersect_candle" /\ ret /= NoRet) =>
        LET c == call.candle
            h == IF "height" \in DOMAIN c THEN c.height ELSE 1500000
            y == call.ro[2]
        IN  /\ ret.status = "returned"
            /\ ret.part = "candle_body" <=> (c.position[2] <= y /\ y <= c.position[2] + h)
            /\ Abs(y - FlameCentreY(c)) < 120000 => ret.part = "candle_flame"

\* The origin lies outside the box.
Outside(o, bmin, bmax) == \E i \in 1..3 : o[i] < bmin[i] \/ o[i] > bmax[i]

\* The point lies on the face of the box whose outward normal is n, to within
\* the resolution of the arithmetic (2e-5).
OnFace(pt, n, bmin, bmax) ==
    \E i \in 1..3 :
        /\ n = [j \in 1..3 |-> IF j = i THEN n[i] ELSE 0]
        /\ \/ n[i] = -Scale /\ Abs(pt[i] - bmin[i]) <= 20
           \/ n[i] = Scale /\ Abs(pt[i] - bmax[i]) <= 20

\* C20: for a ray from outside the room box aimed at the box's centre,
\* ray_aabb reports a hit, and the normal returned is the unit axis vector of
\* the face that contains the hit point.
C20_AimedAtCentre ==
    (/\ call.fn = "ray_aabb" /\ ret /= NoRet
     /\ Outside(call.ro, call.bmin, call.bmax)
     /\ call.rd /= <<0, 0, 0>>) =>
        /\ ret.status = "returned"
        /\ ret.hit
        /\ OnFace(add(call.ro, mul(call.rd, Narrow(ret.t))), ret.n, call.bmin, call.bmax)

\* A 3-component field that is present without exactly three numeric entries.
BadVector(cfg, p) ==
    /\ p[1] \in DOMAIN cfg
    /\ p[2] \in DOMAIN GroupOf(cfg, p[1])
    /\ GroupOf(cfg, p[1])[p[2]] /= <<"number", "number", "number">>

\* C16: validate_scene fails with an assertion for every configuration that
\* lacks one of the groups camera, room, light, render and for every
\* configuration in which a 3-component field (camera position/look_at, room
\* size/center/face colours, light position/intensity, mirror position/normal,
\* human and candle position) has not exactly three numeric entries, and it
\* accepts a configuration only if it has none of these defects.
C16_ValidationRejects ==
    (call.fn = "main" /\ ret /= NoRet) =>
        LET cfg == call.scene_data
        IN  /\ (\E g \in {"camera", "room", "light", "render"} : g \notin DOMAIN cfg)
                  => ~ret.accepted
            /\ (\E p \in VectorFields : BadVector(cfg, p)) => ~ret.accepted
            /\ ret.accepted =>
                  /\ \A g \in {"camera", "room", "light", "render"} : g \in DOMAIN cfg
                  /\ \A p \in VectorFields : ~BadVector(cfg, p)

\* C17: for a configuration that validate_scene accepted, the construction of
\* the Scene, the renderer's set-up and the trace calls raise no missing-field
\* error: a missing field is found by the validation or not at all.
C17_FailFast ==
    (call.fn = "main" /\ ret /= NoRet /\ ret.accepted) => ret.error /= "KeyError"

\* Rounding allowance of the six-decimal arithmetic, 2e-5.
Tol == 20

Near(x, y) == Abs(x - y) <= Tol

NearVec(a, b) == \A i \in 1..3 : Near(a[i], b[i])

\* ray_sphere has returned for a ray that starts outside the sphere and whose
\* unit direction points at the centre.
AimedAtSphere ==
    /\ call.fn = "ray_sphere" /\ ret /= NoRet
    /\ call.rd = norm(sub(call.center, call.ro))
    /\ length(sub(call.ro, call.center)) > call.radius

\* |origin - C| - R
Gap == length(sub(call.ro, call.center)) - call.radius

\* The result is the hit at distance t with the normal (hit - C) / R.
SphereHitAt(t) ==
    /\ ret.hit
    /\ Near(ret.t, t)
    /\ NearVec(ret.n, [i \in 1..3 |->
           FDiv(call.ro[i] + FMul(call.rd[i], ret.t) - call.center[i], call.radius)])

C21_WitnessNearSurface == AimedAtSphere /\ Gap < MinT - Tol /\ ret.hit

\* reflect has returned.
Reflected == call.fn = "reflect" /\ ret /= NoRet

\* The reflection reverses the component along n and keeps the length.
MirrorLaw ==
    /\ Near(dot(ret.v, call.n), -dot(call.rd, call.n))
    /\ Near(length(ret.v), length(call.rd))

\* n is of unit length.
UnitLength(n) == Near(dot(n, n), Scale)

\* C22 as stated: for all vectors d and n, reflect(d, n) . n = -(d . n) and
\* |reflect(d, n)| = |d|.
C22_Original == Reflected => MirrorLaw

\* C22: for every vector d and every n of unit length, reflect(d, n) . n =
\* -(d . n) and |reflect(d, n)| = |d|; so it is, too, for the zero vector n,
\* where reflect(d, n) = d.
C22_MirrorLaw ==
    (Reflected /\ (UnitLength(call.n) \/ call.n = Zero)) => MirrorLaw

C22_Witness ==
    /\ Reflected /\ UnitLength(call.n)
    /\ dot(call.rd, call.n) > 100000
    /\ ret.v /= call.rd

\* The slab distances of the call: tmin is the largest entry distance, tmax
\* the smallest exit distance.
SlabEnter(i) ==
    WMin(SlabT(call.bmin[i] - call.ro[i], call.rd[i]),
         SlabT(call.bmax[i] - call.ro[i], call.rd[i]))

SlabExit(i) ==
    WMax(SlabT(call.bmin[i] - call.ro[i], call.rd[i]),
         SlabT(call.bmax[i] - call.ro[i], call.rd[i]))

TMin == WMax(WMax(SlabEnter(1), SlabEnter(2)), SlabEnter(3))

TMax == WMin(WMin(SlabExit(1), SlabExit(2)), SlabExit(3))

\* The faces in the order -X, +X, -Y, +Y, -Z, +Z, each with its axis, its
\* coordinate and its outward normal.
Faces ==
    <<[axis |-> 1, at |-> call.bmin[1], n |-> <<-Scale, 0, 0>>],
      [axis |-> 1, at |-> call.bmax[1], n |-> <<Scale, 0, 0>>],
      [axis |-> 2, at |-> call.bmin[2], n |-> <<0, -Scale, 0>>],
      [axis |-> 2, at |-> call.bmax[2], n |-> <<0, Scale, 0>>],
      [axis |-> 3, at |-> call.bmin[3], n |-> <<0, 0, -Scale>>],
      [axis |-> 3, at |-> call.bmax[3], n |-> <<0, 0, Scale>>]>>

\* The hit point ro + rd * t of the returned t.
HitPoint ==
    [i \in 1..3 |->
        IF call.rd[i] = 0 THEN call.ro[i]
        ELSE call.ro[i] + FMul(call.rd[i], Narrow(ret.t))]

\* The hit point lies on face k within 1e-4.
LiesOn(k) == Abs(HitPoint[Faces[k].axis] - Faces[k].at) < Eps

\* The normal is that of the first of the faces -X, +X, -Y, +Y, -Z the hit
\* point lies on, and +Z when it lies on none of them.
FirstFaceNormal ==
    \/ \E k \in 1..5 : LiesOn(k) /\ ret.n = Faces[k].n /\ \A j \in 1..(k - 1) : ~LiesOn(j)
    \/ ret.n = Faces[6].n /\ \A j \in 1..5 : ~LiesOn(j)

\* What ray_aabb returns by the rule on tmin and tmax.
SlabRule ==
    IF WLess(TMax, Wide(0)) \/ WLess(TMax, TMin) THEN ~ret.hit
    ELSE IF ~WLess(TMin, Wide(MinT)) THEN ret.hit /\ ret.t = TMin /\ FirstFaceNormal
    ELSE IF ~WLess(TMax, Wide(MinT)) THEN ret.hit /\ ret.t = TMax /\ FirstFaceNormal
    ELSE ~ret.hit

StrictlyInside ==
    \A i \in 1..3 : call.bmin[i] < call.ro[i] /\ call.ro[i] < call.bmax[i]

AabbReturned == call.fn = "ray_aabb" /\ ret /= NoRet

\* C23 as stated: ray_aabb follows the rule on tmin and tmax, and for every
\* origin strictly inside the box it returns the exit distance tmax.
C23_Original ==
    AabbReturned =>
        /\ SlabRule
        /\ StrictlyInside => ret.hit /\ ret.t = TMax

\* C23: ray_aabb reports no hit when tmax < 0 or tmin > tmax; otherwise it
\* returns tmin if tmin >= 1e-4, else tmax if tmax >= 1e-4, else no hit, with
\* the normal of the first face, in the order -X, +X, -Y, +Y, -Z, the hit
\* point lies on within 1e-4, and +Z when there is none.  For an origin
\* strictly inside the box tmin is negative, so the result is the exit
\* distance tmax when tmax >= 1e-4 and no hit when the exit face is nearer
\* than 1e-4 along the ray.
C23_SlabRule ==
    AabbReturned =>
        /\ SlabRule
        /\ StrictlyInside =>
              /\ WLess(TMin, Wide(0))
              /\ IF WLess(TMax, Wide(MinT)) THEN ~ret.hit ELSE ret.hit /\ ret.t = TMax

C23_Witness ==
    /\ AabbReturned /\ StrictlyInside /\ call.rd /= Zero
    /\ ret.hit /\ ret.t = TMax /\ ret.n = <<0, Scale, 0>>

C23_WitnessEntry ==
    /\ AabbReturned /\ ~StrictlyInside
    /\ ret.hit /\ ret.t = TMin /\ ret.n = <<0, 0, -Scale>>

CylinderReturned == call.fn = "ray_cylinder" /\ ret /= NoRet

\* The squared horizontal (XZ) length of the direction.
HorizontalSq == FMul(call.rd[1], call.rd[1]) + FMul(call.rd[3], call.rd[3])

\* The discriminant of the horizontal quadratic.
HorizontalDisc ==
    LET ox == call.ro[1] - call.center[1]
        oz == call.ro[3] - call.center[3]
        b  == 2 * (FMul(ox, call.rd[1]) + FMul(oz, call.rd[3]))
        c  == FMul(ox, ox) + FMul(oz, oz) - FMul(call.radius, call.radius)
    IN  FMul(b, b) - FMul(4 * HorizontalSq, c)

\* The near (sign = -1) and the far (sign = 1) root.
Root(sign) ==
    LET ox == call.ro[1] - call.center[1]
        oz == call.ro[3] - call.center[3]
        b  == 2 * (FMul(ox, call.rd[1]) + FMul(oz, call.rd[3]))
    IN  FDiv(-b + sign * Sqrt(HorizontalDisc), 2 * HorizontalSq)

\* The vertical offset from the base of the point at distance t.
VerticalOffset(t) == call.ro[2] + FMul(call.rd[2], t) - call.center[2]

\* t is at least 1e-4 and its point lies between the base and the top.
Qualifies(t) == t >= MinT /\ 0 <= VerticalOffset(t) /\ VerticalOffset(t) <= call.height

\* The hit is on the wall of the cylinder, at the radius from its axis (the
\* rounding of the direction grows with the distance travelled), and its
\* normal is horizontal.
OnWall ==
    LET hx == call.ro[1] + FMul(call.rd[1], ret.t) - call.center[1]
        hz == call.ro[3] + FMul(call.rd[3], ret.t) - call.center[3]
    IN  /\ Abs(Sqrt(FMul(hx, hx) + FMul(hz, hz)) - call.radius) <= Tol * (1 + ret.t \div Scale)
        /\ ret.n[2] = 0
        /\ ret.n /= Zero

\* C24: ray_cylinder returns no hit when the direction's squared horizontal
\* length is below 1e-8 or the horizontal discriminant is negative; otherwise
\* it returns the near root if it qualifies, else the far root if it
\* qualifies, else no hit; a hit lies on the wall, never on an end cap, and
\* its normal has Y component 0.
C24_CylinderRule ==
    CylinderReturned =>
        /\ ret.status = "returned"
        /\ IF NearZero(HorizontalSq) \/ HorizontalDisc < 0 THEN ~ret.hit
           ELSE IF Qualifies(Root(-1)) THEN ret.hit /\ ret.t = Root(-1)
           ELSE IF Qualifies(Root(1)) THEN ret.hit /\ ret.t = Root(1)
           ELSE ~ret.hit
        /\ ret.hit => OnWall

\* The far root returned after the near one, at least 1e-4, failed the
\* vertical test.
C24_Witness ==
    /\ CylinderReturned /\ ret.hit
    /\ HorizontalDisc > 0
    /\ Root(-1) >= MinT /\ ~Qualifies(Root(-1))
    /\ ret.t = Root(1)

C24_WitnessNear == CylinderReturned /\ ret.hit /\ ret.t = Root(-1) /\ HorizontalDisc > 0

C24_WitnessNeither ==
    /\ CylinderReturned /\ ~ret.hit
    /\ ~NearZero(HorizontalSq) /\ HorizontalDisc > 0 /\ Root(1) >= MinT

\* The running call was made from outside with bounce 0 and energy at most 1.
TopLevelCall == stack /= <<>> /\ stack[1].bounce = 0 /\ stack[1].energy_in <= Scale

\* C25: in a call entered with bounce 0 and energy at most 1.0 no invocation
\* with bounce above 13 is made, whatever max_bounces is and even when every
\* ray hits a mirror: the invocation at bounce 13, if there is one below the
\* depth cap, is entered with an energy below 0.005 and returns black from
\* the termination test, and invocations were stopped by the energy test
\* alone wherever the cap had not been reached.
C25_EnergyTermination ==
    TopLevelCall =>
        \A i \in DOMAIN stack :
            /\ stack[i].bounce <= 13
            /\ (stack[i].bounce = 13 /\ stack[i].max_bounces > 13) =>
                  /\ stack[i].energy_in < EnergyCutoff
                  /\ stack[i].pc \in {"enter", "done"}
                  /\ stack[i].pc = "done" => stack[i].result = Black

\* C25 witness: max_bounces is above 13, every ray has hit a mirror, and the
\* invocation at bounce 13 has returned black with the cap not reached.
C25_Witness ==
    /\ TopLevelCall
    /\ stack[1].energy_in = Scale
    /\ stack[1].max_bounces > 13
    /\ Len(stack) = 14
    /\ Top.bounce = 13
    /\ Top.pc = "done"
    /\ \A i \in 1..13 : stack[i].nearest.reflectivity > ReflectThreshold

\* C26: the list trace_ray_with_validation returns holds exactly
\* max_deflections segments, one per deflection.
C26_ExactlyMaxDeflections ==
    (call.fn = "trace_ray_with_validation" /\ ret.status = "returned") =>
        Len(ret.segments) = call.max_deflections

\* Scene.trace has shaded a room face for a ray that started inside the room,
\* with the light inside the room.
RoomFaceShaded ==
    /\ call.fn = "Scene.trace" /\ ret /= NoRet
    /\ ret.status = "returned" /\ ret.via = "diffuse"
    /\ ~Outside(call.ro, BoxMin, BoxMax)
    /\ ~Outside(call.light.position, BoxMin, BoxMax)

\* C27: for a ray from inside the room whose nearest surface is a room face,
\* with the light inside the room, the face's normal points away from the
\* light, N.L is clamped to 0 and the direct term is 0, and trace returns
\* 0.1 * face colour per channel whatever the light's intensity and distance
\* and the ray's energy; the shadow ray starts outside the box, and it meets
\* the box before the light (where the light lies along the normal the
\* distance to the box is the epsilon itself and rounding decides that test).
C27_RoomFaceAmbientOnly ==
    RoomFaceShaded =>
        /\ ret.lg.ndotl < 0
        /\ clamp01(ret.lg.ndotl) = 0
        /\ ret.direct = 0
        /\ ret.color = [c \in 1..3 |-> FMul(ret.nearest_color[c], Ambient)]
        /\ Outside(ret.shadow_ro, BoxMin, BoxMax)
        /\ ret.lg.ndotl > -Scale + Tol =>
              /\ ShadowHit(ret.lg.shadow_room, ret.lg.dist)
              /\ ret.blocked

\* C27 witness: the floor shaded with the light above it, for a ray of half
\* energy and the brighter light.
C27_Witness ==
    /\ RoomFaceShaded
    /\ ret.n = <<0, -Scale, 0>>
    /\ call.energy < Scale
    /\ call.light.intensity[1] = 10 * Scale
    /\ ret.lg.ndotl > -Scale + Tol
    /\ ret.color = <<60000, 50000, 40000>>

\* The ray of invocation f hits the light sphere, and the room not at all or
\* strictly behind the light.
LightBeforeRoom(f) ==
    /\ f.ntests > 0
    /\ f.isect.light /= None
    /\ f.isect.room.t = None \/ f.isect.light < f.isect.room.t

\* C28: an invocation whose ray hits the light sphere, and the room not at all
\* or strictly behind the light, returns the light's boosted intensity from
\* the light test, whatever the mirrors, candles and human figures return for
\* the ray, nearer than the light or not.
C28_LightBeforeRoomOnly ==
    \A f \in Frames :
        LightBeforeRoom(f) =>
            /\ f.pc = "done"
            /\ f.via = "light"
            /\ f.result = mul(scene.light.intensity, Boost)
            /\ f.ncalls = 0

\* C28 witness: the light returned although a mirror, a candle and a human
\* figure are all hit nearer than the light.
C28_Witness ==
    \E f \in Frames :
        /\ LightBeforeRoom(f)
        /\ f.via = "light"
        /\ \E i \in DOMAIN f.isect.mirrors :
              f.isect.mirrors[i] /= None /\ f.isect.mirrors[i] < f.isect.light
        /\ \E i \in DOMAIN f.isect.candles :
              f.isect.candles[i].t /= None /\ f.isect.candles[i].t < f.isect.light
        /\ \E i \in DOMAIN f.isect.humans :
              f.isect.humans[i] /= None /\ f.isect.humans[i] < f.isect.light

\* The first shadow test of the lighting calculation has been made.
ShadowTested == call.fn = "shadow ray" /\ ret /= NoRet /\ ret.status = "returned"

\* The shadow ray's origin lies outside the light sphere, further from it
\* than the epsilon and the rounding.
ShadowFromOutside ==
    length(sub(ret.shadow_ro, call.light.position)) > call.light.radius + MinT + Tol

ShadowFromInside ==
    length(sub(ret.shadow_ro, call.light.position)) < call.light.radius - Tol

\* x is y to within the offset of the shadow ray's origin and the rounding.
About(x, y) == Abs(x - y) <= ShadowOffset + Tol * (1 + ret.dist_to_light \div Scale)

\* C29: the first shadow test, against the light sphere, is never positive:
\* the shadow ray's hit distance on the sphere is dist_to_light - radius from
\* outside it and dist_to_light + radius from inside it (to within the 1e-4
\* by which the ray's origin is moved off the surface), never below
\* dist_to_light - radius - 1e-3.
C29_LightTestNeverBlocks ==
    ShadowTested =>
        /\ ~ret.blocked
        /\ ret.shadow_t /= None =>
              ret.shadow_t >= ShadowLimit(ret.dist_to_light, call.light.radius)
        /\ ShadowFromOutside =>
              ret.shadow_t /= None
              /\ About(ret.shadow_t, ret.dist_to_light - call.light.radius)
        /\ ShadowFromInside =>
              ret.shadow_t /= None
              /\ About(ret.shadow_t, ret.dist_to_light + call.light.radius)

\* C29 witness: a point 5e-4 outside the sphere whose normal points at the
\* light: the shadow ray hits the sphere nearer than dist_to_light - radius,
\* within the slack.
C29_Witness ==
    /\ ShadowTested /\ ShadowFromOutside
    /\ ret.shadow_t /= None
    /\ ret.shadow_t < ret.dist_to_light - call.light.radius
    /\ ~ret.blocked

C29_WitnessInside == ShadowTested /\ ShadowFromInside /\ ret.shadow_t /= None

====
